---- MODULE Spec2Model ----
(***************************************************************************)
(* Host-side orchestrator of m87-assistant: the IPC mailbox drainer        *)
(* (processIpcFiles / processTaskIpc), the stores it mutates, and the      *)
(* scheduler loop that fires the tasks the drainer creates.                *)
(*                                                                         *)
(* Strings whose characters matter to the code (chat ids, folder names,    *)
(* file names, schedule values) are sequences of characters, so that       *)
(* startsWith / replace / parseInt / template concatenation are computed   *)
(* and not assumed.  Every test the handlers make on an optional field is  *)
(* a JavaScript truthiness test, under which undefined, "" and 0 behave    *)
(* alike: an absent string field is the empty sequence or "", an absent    *)
(* number is 0.                                                            *)
(***************************************************************************)
EXTENDS Integers, Sequences, FiniteSets, TLC

----------------------------------------------------------------------------
(* Bounds of the model *)

MaxEntries == 2      \* mailbox files the workers write in one behaviour
MaxTime    == 2      \* the clock runs 0..MaxTime
MaxMessages == 2     \* Telegram messages that pass the pairing gate in one behaviour
MaxStarts  == 2      \* startTelegram calls that get past the started flag

----------------------------------------------------------------------------
(* JavaScript string helpers *)

\* An optional number: <<>> is NaN / null / undefined, <<n>> is the number n
NaN == <<>>
Null == <<>>
Num(n) == <<n>>
IsNaN(r) == r = <<>>
Val(r) == r[1]

Digits == {"0", "1", "2", "3", "4", "5", "6", "7", "8", "9"}

DigitVal(c) ==
  CASE c = "0" -> 0 [] c = "1" -> 1 [] c = "2" -> 2 [] c = "3" -> 3
    [] c = "4" -> 4 [] c = "5" -> 5 [] c = "6" -> 6 [] c = "7" -> 7
    [] c = "8" -> 8 [] c = "9" -> 9

\* String.prototype.startsWith
StartsWith(s, p) == Len(s) >= Len(p) /\ SubSeq(s, 1, Len(p)) = p

\* String.prototype.endsWith
EndsWith(s, p) == Len(s) >= Len(p) /\ SubSeq(s, Len(s) - Len(p) + 1, Len(s)) = p

\* String.prototype.replace(p, r) with a string pattern: the first occurrence
ReplaceFirst(s, p, r) ==
  LET occ == {i \in 1..(Len(s) - Len(p) + 1) : SubSeq(s, i, i + Len(p) - 1) = p}
  IN IF occ = {} THEN s
     ELSE LET i == CHOOSE k \in occ : \A m \in occ : k <= m
          IN SubSeq(s, 1, i - 1) \o r \o SubSeq(s, i + Len(p), Len(s))

\* length of the longest prefix of s made of digits
RECURSIVE DigitPrefixLen(_)
DigitPrefixLen(s) ==
  IF s = <<>> \/ Head(s) \notin Digits THEN 0 ELSE 1 + DigitPrefixLen(Tail(s))

RECURSIVE DigitsValue(_, _)
DigitsValue(s, acc) ==
  IF s = <<>> THEN acc ELSE DigitsValue(Tail(s), 10 * acc + DigitVal(Head(s)))

\* parseInt(s, 10): an optional sign, then the leading run of digits; NaN when
\* there is no digit.  What follows the digits is ignored.
ParseInt(s) ==
  LET neg  == s # <<>> /\ Head(s) = "-"
      body == IF s # <<>> /\ Head(s) \in {"-", "+"} THEN Tail(s) ELSE s
      n    == DigitPrefixLen(body)
      v    == DigitsValue(SubSeq(body, 1, n), 0)
  IN IF n = 0 THEN NaN ELSE Num(IF neg THEN 0 - v ELSE v)

\* new Date(s).getTime(): timestamps are written as digit strings of clock
\* units; anything else is an Invalid Date
DateParse(s) ==
  IF s # <<>> /\ DigitPrefixLen(s) = Len(s) THEN Num(DigitsValue(s, 0)) ELSE NaN

\* JavaScript truthiness of an optional string field (undefined and "" are <<>>)
Truthy(s) == s # <<>>

\* JavaScript truthiness of an optional number field (undefined and 0 are 0)
TruthyNum(n) == n # 0

----------------------------------------------------------------------------
(* Configuration *)

MAIN_GROUP_FOLDER == <<"m", "a", "i", "n">>
G1 == <<"g", "1">>
G2 == <<"g", "2">>

\* the per-group IPC directories under DATA_DIR/ipc
GroupDirs == {MAIN_GROUP_FOLDER, G1, G2}

ErrorsDir == <<"e", "r", "r", "o", "r", "s">>

\* fs.readdirSync(ipcBaseDir), in name order, without the errors directory
ReadGroupDirs == SelectSeq(<<ErrorsDir, G1, G2, MAIN_GROUP_FOLDER>>,
                           LAMBDA f : f \in GroupDirs /\ f # ErrorsDir)

TG == <<"t", "g", ":">>
JidMain == TG \o <<"1">>
JidG1   == TG \o <<"2">>
JidG2   == TG \o <<"3">>
JidBad  == TG \o <<"x">>
JidWa   == <<"w", "a", ":", "1">>

Users == {7, 8}

FileA == <<"a", ".json">>
FileB == <<"b", ".json">>
FileNames == {FileA, FileB}

\* readdirSync(...).filter(f => f.endsWith('.json'))
IsJsonFile(f) == EndsWith(f, <<".json">>)

----------------------------------------------------------------------------
(* Mailbox entry bodies: the parsed JSON object, or a body JSON.parse rejects *)

Blank ==
  [parse |-> TRUE, type |-> <<>>, chatJid |-> <<>>, text |-> <<>>, taskId |-> 0,
   prompt |-> <<>>, schedule_type |-> <<>>, schedule_value |-> <<>>,
   context_mode |-> <<>>, groupFolder |-> <<>>, jid |-> <<>>, name |-> <<>>,
   folder |-> <<>>, trigger |-> <<>>, userId |-> 0]

Garbage == [Blank EXCEPT !.parse = FALSE]

Msg(j, t) == [Blank EXCEPT !.type = <<"message">>, !.chatJid = j, !.text = t]

Sched(gf, j, st, sv) ==
  [Blank EXCEPT !.type = <<"schedule_task">>, !.prompt = <<"p">>, !.groupFolder = gf,
                !.chatJid = j, !.schedule_type = st, !.schedule_value = sv]

TaskOp(kind, id) == [Blank EXCEPT !.type = kind, !.taskId = id]

Register(j, n, f, t) ==
  [Blank EXCEPT !.type = <<"register_group">>, !.jid = j, !.name = n, !.folder = f,
                !.trigger = t]

Acl(kind, u) == [Blank EXCEPT !.type = kind, !.userId = u]

----------------------------------------------------------------------------
(* State *)

VARIABLES
  now,               \* Date.now(), in clock units
  ipc,               \* the pending mailbox files: [dir, sub, name, id, body]
  errors,            \* the quarantine directory ipc/errors: [name, id, body]
  nextEntry,         \* ids of the entries written so far are 1..nextEntry-1
  drainPc,           \* where processIpcFiles stands
  todoGroups,        \* the listed group directories still to scan in this tick
  curDir,            \* the directory being scanned
  files,             \* the listed files of the current sub-directory still to do
  timers,            \* the setTimeout(processIpcFiles) timers that are set
  ticks,             \* the processIpcFiles calls that have started and not returned
  tasks,             \* the Task Store rows
  nextTaskId,        \* the next task id createTask is given
  registeredGroups,  \* the Tenant Registry, in insertion order: [jid, name, folder, trigger]
  groupFolders,      \* the group folders that exist under groups/
  pairedUsers,       \* telegram_paired_users.json: [userId, pairedAt, approvedBy]
  pendingApprovals,  \* telegram_pending_approvals.json: [userId, requestedAt]
  bot,               \* telegram.ts's bot: TRUE once startTelegram has created it
  telegramStarted,   \* telegram.ts's telegramStarted flag
  alive,             \* the launched Telegraf instances whose launch() has not settled
  waiting,           \* the startTelegram calls in their wait of 2 seconds
  sent,              \* messages handed to the front end: [chatId, via, src]
  schedPc,           \* where the scheduler loop stands
  dueQueue,          \* the due tasks of this scheduler tick still to dispatch
  inflight,          \* the task row whose invocation is running (NoTask otherwise)
  written,           \* history: the entry each id was written as
  fate,              \* history: id -> "pending" | "deleted" | "quarantined"
  applied,           \* history: id -> how often its operation ran to completion
  handed,            \* history: [dir, claims, sourceGroup, isMain] of each handler call
  origin,            \* history: task id -> the mailbox directory its request came from
  chats,             \* registered_telegram.json: [chatId, folder]
  sessions,          \* index.ts's sessions map: [folder, token]
  sessionsFile,      \* sessions.json: [folder, token]
  running,           \* the handleMessage calls past the gate: [mid, chatId, from, paired (at the gate),
                     \*   folder, pc, sessionId]
  nextMsg,           \* the handleMessage calls so far are 1..nextMsg-1
  returned,          \* history: the last runner call handleMessage saw return
  coder,             \* the spawnCoder call: [pc, creds, secret, branch, sandbox,
                     \*   cloneExit, agentExit, result]
  fired,             \* history: the scheduler's dispatches: [id, kind, due, run, ok]
  last               \* the file step processIpcFiles just took (NoStep otherwise)

vars == <<now, ipc, errors, nextEntry, drainPc, todoGroups, curDir, files, timers, ticks,
          tasks,
          nextTaskId, registeredGroups, groupFolders, pairedUsers, pendingApprovals,
          bot, telegramStarted, alive, waiting, sent, schedPc, dueQueue, inflight, written, fate, applied, handed, origin,
          chats, sessions, sessionsFile, running, nextMsg, returned, coder, fired, last>>

startVars == <<telegramStarted, alive, waiting>>
drainVars == <<drainPc, todoGroups, curDir, files, timers, ticks>>
mailVars  == <<ipc, errors, nextEntry, written, fate, applied, handed, origin>>
storeVars == <<tasks, nextTaskId, registeredGroups, groupFolders, pairedUsers,
               pendingApprovals>>
schedVars == <<schedPc, dueQueue, inflight>>
frontVars == <<chats, sessions, sessionsFile, running, nextMsg, returned>>

----------------------------------------------------------------------------
(* Task Store (db.ts) *)

NoTask == [id |-> 0]

getTaskById(id) ==
  IF \E t \in tasks : t.id = id THEN CHOOSE t \in tasks : t.id = id ELSE NoTask

createTask(row) == tasks \cup {row}

updateTask(id, status) ==
  {IF t.id = id THEN [t EXCEPT !.status = status] ELSE t : t \in tasks}

deleteTask(id) == {t \in tasks : t.id # id}

----------------------------------------------------------------------------
(* Schedules *)

CronEvery1 == <<"*">>
CronEvery2 == <<"*", "/", "2">>

\* CronExpressionParser.parse: the period of an expression, NaN when parse throws
CronPeriod(v) ==
  CASE v = CronEvery1 -> Num(1)
    [] v = CronEvery2 -> Num(2)
    [] OTHER -> NaN

\* (mutant) the first instant of the expression at or after t
CronNextNotStrict(v, t) ==
  LET p == Val(CronPeriod(v)) IN ((t + p - 1) \div p) * p

\* interval.next(): the first instant of the expression strictly after t
CronNext(v, t) ==
  LET p == Val(CronPeriod(v)) IN ((t \div p) + 1) * p

\* (mutant) cron and interval count from the epoch instead of from now
NextRunForgetsNow(scheduleType, scheduleValue) ==
  CASE scheduleType = <<"cron">> ->
         IF IsNaN(CronPeriod(scheduleValue))
         THEN [ok |-> FALSE, nextRun |-> Null]
         ELSE [ok |-> TRUE, nextRun |-> Num(CronNext(scheduleValue, 0))]
    [] scheduleType = <<"interval">> ->
         LET ms == ParseInt(scheduleValue)
         IN IF IsNaN(ms) \/ Val(ms) <= 0
            THEN [ok |-> FALSE, nextRun |-> Null]
            ELSE [ok |-> TRUE, nextRun |-> Num(Val(ms))]
    [] scheduleType = <<"once">> ->
         LET scheduled == DateParse(scheduleValue)
         IN IF IsNaN(scheduled)
            THEN [ok |-> FALSE, nextRun |-> Null]
            ELSE [ok |-> TRUE, nextRun |-> scheduled]
    [] OTHER -> [ok |-> TRUE, nextRun |-> Null]

\* the schedule_type branches of schedule_task: [ok, nextRun]
NextRunFor(scheduleType, scheduleValue) ==
  CASE scheduleType = <<"cron">> ->
         IF IsNaN(CronPeriod(scheduleValue))
         THEN [ok |-> FALSE, nextRun |-> Null]
         ELSE [ok |-> TRUE, nextRun |-> Num(CronNext(scheduleValue, now))]
    [] scheduleType = <<"interval">> ->
         LET ms == ParseInt(scheduleValue)
         IN IF IsNaN(ms) \/ Val(ms) <= 0
            THEN [ok |-> FALSE, nextRun |-> Null]
            ELSE [ok |-> TRUE, nextRun |-> Num(now + Val(ms))]
    [] scheduleType = <<"once">> ->
         LET scheduled == DateParse(scheduleValue)
         IN IF IsNaN(scheduled)
            THEN [ok |-> FALSE, nextRun |-> Null]
            ELSE [ok |-> TRUE, nextRun |-> scheduled]
    [] OTHER -> [ok |-> TRUE, nextRun |-> Null]

ContextMode(m) == IF m = <<"group">> \/ m = <<"isolated">> THEN m ELSE <<"isolated">>

----------------------------------------------------------------------------
(* Authorization: the checks processTaskIpc and processIpcFiles make *)

\* (mutant) the source group taken from the identity the body claims
SourceGroupFromBody(dir, data) ==
  IF Truthy(data.groupFolder) THEN data.groupFolder ELSE dir

\* the directory an entry was found in is its source group
SourceGroupOf(dir, data) == dir

IsMainOf(group) == group = MAIN_GROUP_FOLDER

\* schedule_task: a group other than main may only target itself
ScheduleAuthorized(isMain, targetGroup, srcGroup) ==
  ~(~isMain /\ targetGroup # srcGroup)

\* (mutant) any group may change any task that exists
TaskOpAuthorizedAnyGroup(task, isMain, srcGroup) == task # NoTask

\* (mutant) only the main group may change a task
TaskOpAuthorizedMainOnly(task, isMain, srcGroup) == task # NoTask /\ isMain

\* pause_task / resume_task / cancel_task
TaskOpAuthorized(task, isMain, srcGroup) ==
  task # NoTask /\ (isMain \/ task.group_folder = srcGroup)

\* (mutant) the administrative requests are open to every group
AdminAuthorizedAny(isMain) == TRUE

\* register_group, telegram_approve, telegram_deny, telegram_list_pending
AdminAuthorized(isMain) == isMain

\* (mutant) every group may emit messages
MessageAuthorizedAny(isMain) == TRUE

\* an IPC message is sent only for the main group
MessageAuthorized(isMain) == isMain

----------------------------------------------------------------------------
(* Tenant Registry *)

JidIndex(j) == {i \in 1..Len(registeredGroups) : registeredGroups[i].jid = j}

\* registeredGroups[jid] = group: an existing key keeps its place
RegistrySet(j, g) ==
  LET e == [jid |-> j, name |-> g.name, folder |-> g.folder, trigger |-> g.trigger]
  IN IF JidIndex(j) = {} THEN Append(registeredGroups, e)
     ELSE [i \in 1..Len(registeredGroups) |->
             IF registeredGroups[i].jid = j THEN e ELSE registeredGroups[i]]

\* (mutant) the first registered address, whatever its folder
FirstJidOfAnyFolder(f) ==
  IF registeredGroups = <<>> THEN <<>> ELSE registeredGroups[1].jid

\* Object.entries(registeredGroups).find(([, group]) => group.folder === f)?.[0]
FirstJidOfFolder(f) ==
  LET idx == {i \in 1..Len(registeredGroups) : registeredGroups[i].folder = f}
  IN IF idx = {} THEN <<>>
     ELSE registeredGroups[CHOOSE i \in idx : \A k \in idx : i <= k].jid

\* data.chatJid || the registered address of the target group
TargetJid(data, targetGroup) ==
  IF Truthy(data.chatJid) THEN data.chatJid ELSE FirstJidOfFolder(targetGroup)

----------------------------------------------------------------------------
(* processTaskIpc.  Its result is the stores after the call, the notifications
   it sent, whether it threw, and the boolean approveUser or denyUser returned
   (ret).  fail = k > 0 makes the k-th durable write of
   the call throw (StorageFailure); fail = 0 lets every write succeed.       *)

Stores ==
  [tasks |-> tasks, nextTaskId |-> nextTaskId, registeredGroups |-> registeredGroups,
   groupFolders |-> groupFolders, pairedUsers |-> pairedUsers,
   pendingApprovals |-> pendingApprovals, notify |-> {}, threw |-> FALSE,
   ret |-> FALSE]

Throw(st) == [st EXCEPT !.threw = TRUE]

\* (mutant) a rejected request raises an error
RejectThrows(st) == Throw(st)

\* an unauthorized request: logger.warn and break, the handler returns normally
Reject(st) == st

NewTaskRow(data, targetGroup, targetJid, nextRun) ==
  [id |-> nextTaskId, group_folder |-> targetGroup, chat_jid |-> targetJid,
   prompt |-> data.prompt, schedule_type |-> data.schedule_type,
   schedule_value |-> data.schedule_value,
   context_mode |-> ContextMode(data.context_mode), next_run |-> nextRun,
   status |-> <<"active">>, created_at |-> now]

ScheduleTask(data, srcGroup, isMain, fail) ==
  IF ~(Truthy(data.prompt) /\ Truthy(data.schedule_type)
       /\ Truthy(data.schedule_value) /\ Truthy(data.groupFolder))
  THEN Stores
  ELSE
    LET targetGroup == data.groupFolder
        targetJid   == TargetJid(data, targetGroup)
        nr          == NextRunFor(data.schedule_type, data.schedule_value)
    IN IF ~ScheduleAuthorized(isMain, targetGroup, srcGroup) THEN Reject(Stores)
       ELSE IF ~Truthy(targetJid) THEN Stores
       ELSE IF ~nr.ok THEN Stores
       ELSE IF fail = 1 THEN Throw(Stores)
       ELSE [Stores EXCEPT
               !.tasks = createTask(NewTaskRow(data, targetGroup, targetJid, nr.nextRun)),
               !.nextTaskId = nextTaskId + 1]

\* pause_task, resume_task (status) and cancel_task
ChangeTask(data, srcGroup, isMain, fail, newTasks) ==
  IF ~TruthyNum(data.taskId) THEN Stores
  ELSE IF ~TaskOpAuthorized(getTaskById(data.taskId), isMain, srcGroup)
  THEN Reject(Stores)
  ELSE IF fail = 1 THEN Throw(Stores)
  ELSE [Stores EXCEPT !.tasks = newTasks]

\* registerGroup: the map is assigned, saved, and the group folder created
registerGroup(j, g, fail) ==
  LET assigned == [Stores EXCEPT !.registeredGroups = RegistrySet(j, g)]
  IN IF fail \in {1, 2} THEN Throw(assigned)
     ELSE [assigned EXCEPT !.groupFolders = groupFolders \cup {g.folder}]

\* (mutant) the trigger is not asked for
RegisterFieldsWithoutTrigger(data) ==
  Truthy(data.jid) /\ Truthy(data.name) /\ Truthy(data.folder)

\* the four fields a register_group request must carry
RegisterFieldsPresent(data) ==
  Truthy(data.jid) /\ Truthy(data.name) /\ Truthy(data.folder) /\ Truthy(data.trigger)

RegisterGroupRequest(data, isMain, fail) ==
  IF ~AdminAuthorized(isMain) THEN Reject(Stores)
  ELSE IF RegisterFieldsPresent(data)
  THEN registerGroup(data.jid,
                     [name |-> data.name, folder |-> data.folder,
                      trigger |-> data.trigger], fail)
  ELSE Stores

IsPending(u) == \E p \in pendingApprovals : p.userId = u
IsPaired(u) == \E p \in pairedUsers : p.userId = u

\* (mutant) the approval leaves the pending record where it is
approveUserKeepsPending(u, approvedBy, fail) ==
  IF fail = 1 THEN Throw(Stores)
  ELSE [Stores EXCEPT
          !.pairedUsers = {p \in pairedUsers : p.userId # u}
                            \cup {[userId |-> u, pairedAt |-> now,
                                   approvedBy |-> approvedBy]}]

\* (mutant) the approval saves a pending map that holds nobody
approveUserClearsPending(u, approvedBy, fail) ==
  IF fail = 1 THEN Throw(Stores)
  ELSE [Stores EXCEPT
          !.pairedUsers = {p \in pairedUsers : p.userId # u}
                            \cup {[userId |-> u, pairedAt |-> now,
                                   approvedBy |-> approvedBy]},
          !.pendingApprovals = {}, !.ret = TRUE]

\* approveUser(userId, approvedBy)
approveUser(u, approvedBy, fail) ==
  LET users == {p \in pairedUsers : p.userId # u}
                 \cup {[userId |-> u, pairedAt |-> now, approvedBy |-> approvedBy]}
      saved == [Stores EXCEPT !.pairedUsers = users]
      note  == IF bot THEN {[chatId |-> u, via |-> "approved", src |-> MAIN_GROUP_FOLDER]}
               ELSE {}
  IN IF fail = 1 THEN Throw(Stores)
     ELSE IF ~IsPending(u) THEN [saved EXCEPT !.notify = note, !.ret = TRUE]
     ELSE IF fail = 2 THEN Throw(saved)
     ELSE [saved EXCEPT
             !.pendingApprovals = {p \in pendingApprovals : p.userId # u},
             !.notify = note, !.ret = TRUE]

\* (mutant) denying a user also deletes the paired record of that user
denyUserUnpairs(u, fail) ==
  [Stores EXCEPT
     !.pendingApprovals = {p \in pendingApprovals : p.userId # u},
     !.pairedUsers = {p \in pairedUsers : p.userId # u},
     !.ret = IsPending(u)]

\* denyUser(userId)
denyUser(u, fail) ==
  IF ~IsPending(u) THEN Stores
  ELSE IF fail = 1 THEN Throw(Stores)
  ELSE [Stores EXCEPT
          !.pendingApprovals = {p \in pendingApprovals : p.userId # u},
          !.notify = IF bot
                     THEN {[chatId |-> u, via |-> "denied", src |-> MAIN_GROUP_FOLDER]}
                     ELSE {},
          !.ret = TRUE]

AclRequest(data, isMain, fail) ==
  IF ~AdminAuthorized(isMain) THEN Reject(Stores)
  ELSE IF data.type = <<"telegram_list_pending">> THEN Stores
  ELSE IF ~TruthyNum(data.userId) THEN Stores
  ELSE IF data.type = <<"telegram_approve">> THEN approveUser(data.userId, <<"main">>, fail)
  ELSE denyUser(data.userId, fail)

\* updateTask(data.taskId, { status: 'paused' })
PauseEffect(id) == updateTask(id, <<"paused">>)

\* updateTask(data.taskId, { status: 'active' })
ResumeEffect(id) == updateTask(id, <<"active">>)

\* (mutant) cancel_task pauses the task instead of deleting its row
CancelEffectPauses(id) == updateTask(id, <<"paused">>)

\* deleteTask(data.taskId)
CancelEffect(id) == deleteTask(id)

processTaskIpc(data, srcGroup, isMain, fail) ==
  CASE data.type = <<"schedule_task">> -> ScheduleTask(data, srcGroup, isMain, fail)
    [] data.type = <<"pause_task">> ->
         ChangeTask(data, srcGroup, isMain, fail, PauseEffect(data.taskId))
    [] data.type = <<"resume_task">> ->
         ChangeTask(data, srcGroup, isMain, fail, ResumeEffect(data.taskId))
    [] data.type = <<"cancel_task">> ->
         ChangeTask(data, srcGroup, isMain, fail, CancelEffect(data.taskId))
    [] data.type = <<"register_group">> -> RegisterGroupRequest(data, isMain, fail)
    [] data.type \in {<<"telegram_approve">>, <<"telegram_deny">>,
                      <<"telegram_list_pending">>} -> AclRequest(data, isMain, fail)
    [] OTHER -> Stores

----------------------------------------------------------------------------
(* processIpcFiles *)

NoStep ==
  [id |-> 0, dir |-> <<>>, sub |-> "", name |-> <<>>, body |-> Blank,
   sourceGroup |-> <<>>, isMain |-> FALSE, threw |-> FALSE, renameOk |-> FALSE,
   outcome |-> "", chatId |-> NaN, delivered |-> FALSE, before |-> {},
   ret |-> FALSE]

\* the pending file at a path
FileAt(dir, sub, name) ==
  CHOOSE e \in ipc : e.dir = dir /\ e.sub = sub /\ e.name = name

\* fs.readdirSync(dir).filter(f => f.endsWith('.json'))
ListJson(dir, sub) ==
  {e.name : e \in {x \in ipc : x.dir = dir /\ x.sub = sub /\ IsJsonFile(x.name)}}

\* path.join(errorDir, `${sourceGroup}-${file}`)
QuarantineName(srcGroup, file) == srcGroup \o <<"-">> \o file

\* (mutant) the file is unlinked whatever happened
DisposalUnlinkAlways(threw, renameOk) == "deleted"

\* (mutant) the catch block unlinks the file when it cannot move it
DisposalUnlinkOnFailedMove(threw, renameOk) ==
  IF ~threw THEN "deleted" ELSE IF renameOk THEN "quarantined" ELSE "deleted"

\* (mutant) the unlink after a successful run is missing
DisposalKeepOnSuccess(threw, renameOk) ==
  IF ~threw THEN "left" ELSE IF renameOk THEN "quarantined" ELSE "left"

\* what becomes of the file: unlinkSync on the normal path; in the catch block
\* renameSync into errors/, which leaves the file where it is when it throws
Disposal(threw, renameOk) ==
  IF ~threw THEN "deleted" ELSE IF renameOk THEN "quarantined" ELSE "left"

\* the chat id an IPC message is sent to, NaN when nothing is sent
MessageChatId(data, isMain) ==
  IF data.type = <<"message">> /\ Truthy(data.chatJid) /\ Truthy(data.text)
     /\ StartsWith(data.chatJid, TG) /\ MessageAuthorized(isMain)
  THEN ParseInt(ReplaceFirst(data.chatJid, TG, <<>>))
  ELSE NaN

\* the identity fields a body claims
Claims(data) == <<data.groupFolder, data.chatJid, data.jid, data.folder>>

\* the file leaves the pending set, into errors/ (replacing a file of that name)
\* or for good
Dispose(e, srcGroup, d) ==
  /\ ipc' = IF d = "left" THEN ipc ELSE ipc \ {e}
  /\ errors' =
       IF d = "quarantined"
       THEN {q \in errors : q.name # QuarantineName(srcGroup, e.name)}
              \cup {[name |-> QuarantineName(srcGroup, e.name), id |-> e.id,
                     body |-> e.body]}
       ELSE errors
  /\ fate' = IF d = "left" THEN fate ELSE [fate EXCEPT ![e.id] = d]
  \* a throw out of the catch block ends the loop over this sub-directory
  /\ files' = IF d = "left" THEN {} ELSE files \ {e.name}

\* the names of FileNames not taken in a mailbox sub-directory
FreeNames(dir, sub) ==
  {n \in FileNames : ~\E e \in ipc : e.dir = dir /\ e.sub = sub /\ e.name = n}

\* workers name their files apart: the first free name, a.json before b.json
FreshName(dir, sub) ==
  CHOOSE n \in FreeNames(dir, sub) : \A m \in FreeNames(dir, sub) : Len(n) <= Len(m) /\ (n = FileA \/ m # FileA)

\* a worker writes a file into its own group's mailbox; W is the family of
\* [dir, sub, body] the workers of a specification write
WorkerWrite(W) ==
  /\ nextEntry <= MaxEntries
  /\ \E w \in W :
       /\ FreeNames(w.dir, w.sub) # {}
       /\ LET name == FreshName(w.dir, w.sub)
          IN /\ ipc' = ipc \cup {[dir |-> w.dir, sub |-> w.sub, name |-> name,
                                  id |-> nextEntry, body |-> w.body]}
             /\ written' = Append(written, [dir |-> w.dir, sub |-> w.sub,
                                            name |-> name, body |-> w.body])
  /\ nextEntry' = nextEntry + 1
  /\ fate' = Append(fate, "pending")
  /\ applied' = Append(applied, 0)
  /\ last' = NoStep
  /\ UNCHANGED <<now, coder, errors, handed, origin, drainVars, storeVars, schedVars, bot, startVars, sent,
                 frontVars, fired>>

\* setTimeout(processIpcFiles, IPC_POLL_INTERVAL) at the end of a tick
AfterTick == "armed"

\* (mutant) the error path returns without setting the timer
AfterReadErrorStops == "stopped"

\* the catch of the base-directory read: the timer is set, then return
AfterReadError == "retry"

\* drainPc while the timer of the next tick is set
TimerArmed == {"armed", "retry"}

\* (mutant) the tick sets the timer of the next tick before it does its work
TimersAtStartRearmed(n) == n

\* the timers left when one has fired and processIpcFiles starts: the call
\* sets none before its work is done
TimersAtStart(n) == n - 1

\* the timer fires and reading ipc/ throws: logged, nothing is scanned
DrainReadError ==
  /\ drainPc \in TimerArmed /\ timers > 0
  /\ drainPc' = AfterReadError
  /\ timers' = TimersAtStart(timers) + (IF AfterReadError \in TimerArmed THEN 1 ELSE 0)
  /\ ticks' = ticks
  /\ last' = NoStep
  /\ UNCHANGED <<now, coder, todoGroups, curDir, files, mailVars, storeVars, schedVars, bot, startVars,
                 sent, frontVars, fired>>

\* the timer fires: the group directories are listed.  A timer that fires
\* while a call is suspended at its await starts a second call beside it.
DrainStart ==
  /\ timers > 0 /\ ticks <= 1
  /\ ticks = 0 => drainPc \in TimerArmed
  /\ timers' = TimersAtStart(timers)
  /\ ticks' = ticks + 1
  /\ IF ticks = 0
     THEN drainPc' = "groups" /\ todoGroups' = ReadGroupDirs
     ELSE UNCHANGED <<drainPc, todoGroups>>
  /\ last' = NoStep
  /\ UNCHANGED <<now, coder, curDir, files, mailVars, storeVars, schedVars, bot, startVars, sent, frontVars,
                 fired>>

\* the next group of the loop: its messages directory is listed
DrainGroup ==
  /\ drainPc = "groups" /\ todoGroups # <<>>
  /\ todoGroups' = Tail(todoGroups)
  /\ curDir' = Head(todoGroups)
  /\ files' = ListJson(Head(todoGroups), "messages")
  /\ drainPc' = "messages"
  /\ last' = NoStep
  /\ UNCHANGED <<now, coder, timers, ticks, mailVars, storeVars, schedVars, bot, startVars, sent, frontVars, fired>>

\* one file of the messages directory
DrainMessage ==
  /\ drainPc = "messages"
  /\ \E f \in files, sendOk \in BOOLEAN, renameOk \in BOOLEAN :
       LET e         == FileAt(curDir, "messages", f)
           srcGroup  == SourceGroupOf(curDir, e.body)
           isMain    == IsMainOf(srcGroup)
           threw     == ~e.body.parse
           chatId    == IF threw THEN NaN ELSE MessageChatId(e.body, isMain)
           delivered == ~IsNaN(chatId) /\ bot /\ sendOk
           d         == Disposal(threw, renameOk)
       IN /\ Dispose(e, srcGroup, d)
          /\ sent' = IF delivered
                     THEN sent \cup {[chatId |-> Val(chatId), via |-> "ipc",
                                      src |-> curDir]}
                     ELSE sent
          /\ applied' = IF threw THEN applied ELSE [applied EXCEPT ![e.id] = @ + 1]
          /\ handed' = IF e.body.parse
                       THEN handed \cup {[dir |-> curDir, claims |-> Claims(e.body),
                                          sourceGroup |-> srcGroup, isMain |-> isMain]}
                       ELSE handed
          /\ last' = [id |-> e.id, dir |-> curDir, sub |-> "messages", name |-> f,
                      body |-> e.body, sourceGroup |-> srcGroup, isMain |-> isMain,
                      threw |-> threw, renameOk |-> renameOk, outcome |-> d,
                      chatId |-> chatId, delivered |-> delivered, before |-> files,
                      ret |-> FALSE]
  /\ UNCHANGED <<now, coder, timers, ticks, nextEntry, written, origin, drainPc, todoGroups, curDir, storeVars,
                 schedVars, bot, startVars, frontVars, fired>>

\* the messages are done: the tasks directory is listed
DrainTasksDir ==
  /\ drainPc = "messages" /\ files = {}
  /\ files' = ListJson(curDir, "tasks")
  /\ drainPc' = "tasks"
  /\ last' = NoStep
  /\ UNCHANGED <<now, coder, timers, ticks, todoGroups, curDir, mailVars, storeVars, schedVars, bot, startVars, sent,
                 frontVars, fired>>

\* one file of the tasks directory; faults are the store-write failures the
\* handler may meet (0: none)
DrainTaskUnder(faults) ==
  /\ drainPc = "tasks"
  /\ \E f \in files, fail \in faults, renameOk \in BOOLEAN :
       LET e        == FileAt(curDir, "tasks", f)
           srcGroup == SourceGroupOf(curDir, e.body)
           isMain   == IsMainOf(srcGroup)
           r        == IF e.body.parse
                       THEN processTaskIpc(e.body, srcGroup, isMain, fail)
                       ELSE Throw(Stores)
           d        == Disposal(r.threw, renameOk)
       IN /\ Dispose(e, srcGroup, d)
          /\ tasks' = r.tasks
          /\ nextTaskId' = r.nextTaskId
          /\ registeredGroups' = r.registeredGroups
          /\ groupFolders' = r.groupFolders
          /\ pairedUsers' = r.pairedUsers
          /\ pendingApprovals' = r.pendingApprovals
          /\ sent' = sent \cup r.notify
          /\ applied' = IF r.threw THEN applied ELSE [applied EXCEPT ![e.id] = @ + 1]
          /\ handed' = IF e.body.parse
                       THEN handed \cup {[dir |-> curDir, claims |-> Claims(e.body),
                                          sourceGroup |-> srcGroup, isMain |-> isMain]}
                       ELSE handed
          /\ origin' = IF r.nextTaskId = nextTaskId THEN origin
                        ELSE Append(origin, curDir)
          /\ last' = [id |-> e.id, dir |-> curDir, sub |-> "tasks", name |-> f,
                      body |-> e.body, sourceGroup |-> srcGroup, isMain |-> isMain,
                      threw |-> r.threw, renameOk |-> renameOk, outcome |-> d,
                      chatId |-> NaN, delivered |-> FALSE, before |-> files,
                      ret |-> r.ret]
  /\ UNCHANGED <<now, coder, timers, ticks, nextEntry, written, drainPc, todoGroups, curDir, schedVars, bot, startVars,
                 frontVars, fired>>

\* one file of the tasks directory, any store write of the handler may throw
DrainTask == DrainTaskUnder(0..2)

\* one file of the tasks directory while every store write succeeds
DrainTaskSound == DrainTaskUnder({0})

\* the tasks are done: on to the next group
DrainGroupDone ==
  /\ drainPc = "tasks" /\ files = {}
  /\ drainPc' = "groups"
  /\ last' = NoStep
  /\ UNCHANGED <<now, coder, timers, ticks, todoGroups, curDir, files, mailVars, storeVars, schedVars, bot, startVars,
                 sent, frontVars, fired>>

\* every group is done: setTimeout(processIpcFiles, IPC_POLL_INTERVAL)
DrainEnd ==
  /\ drainPc = "groups" /\ todoGroups = <<>>
  /\ drainPc' = AfterTick
  /\ timers' = timers + 1 /\ ticks' = ticks - 1
  /\ last' = NoStep
  /\ UNCHANGED <<now, coder, todoGroups, curDir, files, mailVars, storeVars, schedVars, bot, startVars,
                 sent, frontVars, fired>>

----------------------------------------------------------------------------
(* Scheduler loop (task-scheduler.ts) and the sendMessage main() gives it *)

\* (mutant) the due-task query leaves the status out
DueTasksAnyStatus ==
  {t \in tasks : ~IsNaN(t.next_run) /\ Val(t.next_run) <= now}

DueTasks ==
  {t \in tasks : t.status = <<"active">> /\ ~IsNaN(t.next_run) /\ Val(t.next_run) <= now}

\* increasing next-fire time, ties broken by task id
FiresBefore(t, u) ==
  \/ Val(t.next_run) < Val(u.next_run)
  \/ Val(t.next_run) = Val(u.next_run) /\ t.id <= u.id

RECURSIVE SortDue(_)
SortDue(S) ==
  IF S = {} THEN <<>>
  ELSE LET m == CHOOSE t \in S : \A u \in S : FiresBefore(t, u)
       IN <<m>> \o SortDue(S \ {m})

\* (mutant) the row of a once task is left in the store after its run
RescheduleKeepsOnce(row) ==
  CASE row.schedule_type = <<"cron">> ->
         {IF t.id = row.id
          THEN [t EXCEPT !.next_run = Num(CronNext(row.schedule_value, now))]
          ELSE t : t \in tasks}
    [] row.schedule_type = <<"interval">> ->
         {IF t.id = row.id
          THEN [t EXCEPT !.next_run = Num(now + Val(ParseInt(row.schedule_value)))]
          ELSE t : t \in tasks}
    [] OTHER -> tasks

\* (mutant) an interval task is moved on from its due instant, not from now
RescheduleFromDue(row) ==
  CASE row.schedule_type = <<"cron">> ->
         {IF t.id = row.id
          THEN [t EXCEPT !.next_run = Num(CronNext(row.schedule_value, now))]
          ELSE t : t \in tasks}
    [] row.schedule_type = <<"interval">> ->
         {IF t.id = row.id
          THEN [t EXCEPT !.next_run =
                           Num(Val(row.next_run) + Val(ParseInt(row.schedule_value)))]
          ELSE t : t \in tasks}
    [] row.schedule_type = <<"once">> -> deleteTask(row.id)
    [] OTHER -> tasks

\* (mutant) the row is written back whole, whether or not it is still stored
RescheduleUpserts(row) ==
  CASE row.schedule_type = <<"cron">> ->
         deleteTask(row.id)
           \cup {[row EXCEPT !.next_run = Num(CronNext(row.schedule_value, now))]}
    [] row.schedule_type = <<"interval">> ->
         deleteTask(row.id)
           \cup {[row EXCEPT !.next_run = Num(now + Val(ParseInt(row.schedule_value)))]}
    [] row.schedule_type = <<"once">> -> deleteTask(row.id)
    [] OTHER -> tasks

\* the row after a run: cron and interval move next_run, once deletes the row
Reschedule(row) ==
  CASE row.schedule_type = <<"cron">> ->
         {IF t.id = row.id
          THEN [t EXCEPT !.next_run = Num(CronNext(row.schedule_value, now))]
          ELSE t : t \in tasks}
    [] row.schedule_type = <<"interval">> ->
         {IF t.id = row.id
          THEN [t EXCEPT !.next_run = Num(now + Val(ParseInt(row.schedule_value)))]
          ELSE t : t \in tasks}
    [] row.schedule_type = <<"once">> -> deleteTask(row.id)
    [] OTHER -> tasks

\* (mutant) a failed run leaves the row as it is, to be tried again
AfterRunRetriesFailure(row, ok) == IF ok THEN Reschedule(row) ELSE tasks

\* the Task Store after a run that succeeded (ok) or failed: the row is
\* rescheduled either way
AfterRun(row, ok) == Reschedule(row)

\* history record of one dispatch of a row for its due instant; the run is
\* "running", has "ended", or was "interrupted" by a stop of the host
Firing(row, run, ok) ==
  [id |-> row.id, kind |-> row.schedule_type, due |-> Val(row.next_run),
   run |-> run, ok |-> ok]

\* sendMessage: the chat id a scheduler message goes to, NaN when none
SchedulerChatId(jid) ==
  IF StartsWith(jid, TG) THEN ParseInt(ReplaceFirst(jid, TG, <<>>)) ELSE NaN

SchedStart ==
  /\ schedPc = "idle" /\ DueTasks # {}
  /\ dueQueue' = SortDue(DueTasks)
  /\ schedPc' = "batch"
  /\ last' = NoStep
  /\ UNCHANGED <<now, coder, inflight, drainVars, mailVars, storeVars, bot, startVars, sent, frontVars,
                 fired>>

SchedDispatch ==
  /\ schedPc = "batch" /\ dueQueue # <<>>
  /\ inflight' = Head(dueQueue)
  /\ dueQueue' = Tail(dueQueue)
  /\ schedPc' = "invoking"
  /\ fired' = fired \cup {Firing(Head(dueQueue), "running", FALSE)}
  /\ last' = NoStep
  /\ UNCHANGED <<now, coder, drainVars, mailVars, storeVars, bot, startVars, sent, frontVars>>

\* the invocation returns (ok) or fails; the result is delivered; the row is
\* rescheduled and persisted.  outcomes are the values ok may take.
SchedFinishUnder(outcomes) ==
  /\ schedPc = "invoking"
  /\ \E ok \in outcomes, sendOk \in BOOLEAN :
       LET chatId    == SchedulerChatId(inflight.chat_jid)
           delivered == ok /\ ~IsNaN(chatId) /\ bot /\ sendOk
       IN /\ sent' = IF delivered
                     THEN sent \cup {[chatId |-> Val(chatId), via |-> "scheduler",
                                      src |-> origin[inflight.id]]}
                     ELSE sent
          /\ tasks' = AfterRun(inflight, ok)
          /\ fired' = (fired \ {Firing(inflight, "running", FALSE)})
                         \cup {Firing(inflight, "ended", ok)}
  /\ inflight' = NoTask
  /\ schedPc' = "batch"
  /\ last' = NoStep
  /\ UNCHANGED <<now, coder, dueQueue, drainVars, mailVars, nextTaskId, registeredGroups,
                 groupFolders, pairedUsers, pendingApprovals, bot, startVars, frontVars>>

\* the invocation returns or fails
SchedFinish == SchedFinishUnder(BOOLEAN)

\* the invocation returns
SchedFinishSound == SchedFinishUnder({TRUE})

SchedEnd ==
  /\ schedPc = "batch" /\ dueQueue = <<>>
  /\ schedPc' = "idle"
  /\ last' = NoStep
  /\ UNCHANGED <<now, coder, dueQueue, inflight, drainVars, mailVars, storeVars, bot, startVars, sent,
                 frontVars, fired>>

----------------------------------------------------------------------------
(* The rest of the host *)

\* time passes
Advance ==
  /\ now < MaxTime
  /\ now' = now + 1
  /\ last' = NoStep
  /\ UNCHANGED <<coder, drainVars, mailVars, storeVars, schedVars, bot, startVars, sent, frontVars, fired>>

\* startTelegram, the call main() makes, to its end: the bot is created and
\* launched and the flag set
StartBot ==
  /\ ~bot /\ ~telegramStarted
  /\ bot' = TRUE
  /\ telegramStarted' = TRUE /\ alive' = alive + 1 /\ waiting' = waiting
  /\ last' = NoStep
  /\ UNCHANGED <<now, coder, drainVars, mailVars, storeVars, schedVars, sent, frontVars, fired>>

\* startTelegram up to its wait: the flag is not set, the token is there and
\* the channel enabled; a Telegraf instance is created and launched without
\* awaiting launch(), and the call waits 2 seconds
StartCall ==
  /\ ~telegramStarted
  /\ alive < MaxStarts /\ waiting < MaxStarts
  /\ bot' = TRUE
  /\ alive' = alive + 1
  /\ waiting' = waiting + 1
  /\ last' = NoStep
  /\ UNCHANGED <<now, coder, drainVars, mailVars, storeVars, schedVars, telegramStarted, sent,
                 frontVars, fired>>

\* the wait of a startTelegram call is over: `telegramStarted = true`
StartSettle ==
  /\ waiting > 0
  /\ waiting' = waiting - 1
  /\ telegramStarted' = TRUE
  /\ last' = NoStep
  /\ UNCHANGED <<now, coder, drainVars, mailVars, storeVars, schedVars, bot, alive, sent,
                 frontVars, fired>>

\* launch() of an instance settles: it resolves when the bot is stopped and
\* rejects when it could not start; both handlers set `telegramStarted = false`
LaunchSettles ==
  /\ alive > 0
  /\ alive' = alive - 1
  /\ telegramStarted' = FALSE
  /\ last' = NoStep
  /\ UNCHANGED <<now, coder, drainVars, mailVars, storeVars, schedVars, bot, waiting, sent,
                 frontVars, fired>>

----------------------------------------------------------------------------
(* spawnCoder (container/agent-runner/src/modal-coder.ts).  The call's inputs
   are drawn when it starts: whether the Modal credentials are set (creds),
   whether github-coder-secret is found (secret), whether the task names a
   branch.  sandbox is "none" until modal.sandboxes.create has returned one. *)

NoResult == [success |-> FALSE, error |-> FALSE, sandboxId |-> FALSE, prUrl |-> FALSE]

NoCall ==
  [pc |-> "idle", creds |-> FALSE, secret |-> FALSE, branch |-> FALSE,
   sandbox |-> "none", cloneExit |-> 0, agentExit |-> 0, result |-> NoResult]

\* spawnCoder runs in the agent container and touches nothing of the host
RestUnchanged ==
  UNCHANGED <<now, drainVars, mailVars, storeVars, schedVars, bot, startVars, sent,
              frontVars, fired>>

\* (mutant) a return or a throw inside the try block leaves the function at once
AfterTryLeaves(c, res) == [c EXCEPT !.pc = "returned", !.result = res]

\* a return or a throw inside the try block: the finally block runs next and
\* the function returns res after it
AfterTry(c, res) == [c EXCEPT !.pc = "finally", !.result = res]

\* the catch block: { success: false, output: '', error, sandboxId }
Caught(c) == AfterTry(c, [success |-> FALSE, error |-> TRUE, sandboxId |-> TRUE, prUrl |-> FALSE])

\* spawnCoder up to the try block: the credentials check, the app, the image
\* and the sandbox (a failure of the Modal client rejects the call)
CoderCall ==
  /\ coder.pc = "idle"
  /\ \E creds, secret, branch, ok \in BOOLEAN :
       LET c == [coder EXCEPT !.creds = creds, !.secret = secret, !.branch = branch]
       IN coder' =
            IF ~creds
            THEN [c EXCEPT !.pc = "returned",
                           !.result = [success |-> FALSE, error |-> TRUE,
                                       sandboxId |-> FALSE, prUrl |-> FALSE]]
            ELSE IF ~ok THEN [c EXCEPT !.pc = "threw"]
            ELSE [c EXCEPT !.pc = "setup", !.sandbox = "running"]
  /\ last' = NoStep
  /\ RestUnchanged

\* the GitHub secret, the git user and the credential helper
CoderSetup ==
  /\ coder.pc = "setup"
  /\ \E ok \in BOOLEAN :
       coder' = IF ok THEN [coder EXCEPT !.pc = "clone"] ELSE Caught(coder)
  /\ last' = NoStep
  /\ RestUnchanged

\* git clone and the check of its exit code
CoderClone ==
  /\ coder.pc = "clone"
  /\ \E ok \in BOOLEAN, exit \in {0, 128} :
       coder' =
         IF ~ok THEN Caught(coder)
         ELSE IF exit # 0
         THEN AfterTry([coder EXCEPT !.cloneExit = exit],
                       [success |-> FALSE, error |-> TRUE, sandboxId |-> TRUE, prUrl |-> FALSE])
         ELSE [coder EXCEPT !.pc = IF coder.branch THEN "branch" ELSE "agent"]
  /\ last' = NoStep
  /\ RestUnchanged

\* git fetch and git checkout -b when the task names a branch
CoderBranch ==
  /\ coder.pc = "branch"
  /\ \E ok \in BOOLEAN :
       coder' = IF ok THEN [coder EXCEPT !.pc = "agent"] ELSE Caught(coder)
  /\ last' = NoStep
  /\ RestUnchanged

\* the agent's secrets, settings and prompt, the run of claude under
\* `timeout 1200` (exit code 124 when it times out) and the result built
\* from its output (pr: the output holds the URL of a pull request)
CoderAgent ==
  /\ coder.pc = "agent"
  /\ \E ok, pr \in BOOLEAN, exit \in {0, 1, 124} :
       coder' =
         IF ~ok THEN Caught(coder)
         ELSE AfterTry([coder EXCEPT !.agentExit = exit],
                       [success |-> TRUE, error |-> FALSE, sandboxId |-> TRUE,
                        prUrl |-> pr])
  /\ last' = NoStep
  /\ RestUnchanged

\* finally { await sb.terminate() }: the function returns what the try block
\* left (result), or rejects when terminate throws and result is never seen
CoderFinally ==
  /\ coder.pc = "finally"
  /\ \E ok \in BOOLEAN :
       coder' = IF ok THEN [coder EXCEPT !.pc = "returned", !.sandbox = "terminated"]
                ELSE [coder EXCEPT !.pc = "threw"]
  /\ last' = NoStep
  /\ RestUnchanged

\* handleMessage's pairing gate: a sender who is neither paired nor pending is
\* recorded as pending (requestApproval)
RequestApproval(u) ==
  /\ ~IsPaired(u) /\ ~IsPending(u)
  /\ pendingApprovals' = pendingApprovals \cup {[userId |-> u, requestedAt |-> now]}
  /\ last' = NoStep
  /\ UNCHANGED <<now, coder, drainVars, mailVars, tasks, nextTaskId, registeredGroups,
                 groupFolders, pairedUsers, schedVars, bot, startVars, sent, frontVars, fired>>

HandleMessage == \E u \in Users : RequestApproval(u)

\* unpairUser(userId): the paired record is deleted when there is one
UnpairUser ==
  /\ \E u \in Users :
       /\ IsPaired(u)
       /\ pairedUsers' = {p \in pairedUsers : p.userId # u}
  /\ last' = NoStep
  /\ UNCHANGED <<now, coder, drainVars, mailVars, tasks, nextTaskId, registeredGroups,
                 groupFolders, pendingApprovals, schedVars, bot, startVars, sent, frontVars, fired>>

\* the host process stops at any point and main() starts again: what is on
\* disk stays, the loops start from their beginning, the in-memory session
\* map is loaded from sessions.json, the bot is yet to be started
Crash ==
  /\ schedPc' = "idle" /\ dueQueue' = <<>> /\ inflight' = NoTask
  /\ drainPc' = AfterTick /\ todoGroups' = <<>> /\ curDir' = MAIN_GROUP_FOLDER
  /\ files' = {} /\ timers' = 1 /\ ticks' = 0
  /\ bot' = FALSE /\ running' = {} /\ sessions' = sessionsFile
  /\ telegramStarted' = FALSE /\ alive' = 0 /\ waiting' = 0
  /\ fired' = {IF f.run = "running" THEN [f EXCEPT !.run = "interrupted"] ELSE f :
                f \in fired}
  /\ last' = NoStep
  /\ UNCHANGED <<now, coder, mailVars, storeVars, sent, chats, sessionsFile, nextMsg, returned>>

----------------------------------------------------------------------------
(* Telegram front end (telegram.ts): handleMessage past the pairing gate *)

\* TELEGRAM_CONFIG.unifiedMainChannel (config.ts): private chats get folders
\* of their own
unifiedMainChannel == FALSE

UpperCase == <<"A", "B", "C", "D", "E", "F", "G", "H", "I", "J", "K", "L", "M",
               "N", "O", "P", "Q", "R", "S", "T", "U", "V", "W", "X", "Y", "Z">>
LowerCase == <<"a", "b", "c", "d", "e", "f", "g", "h", "i", "j", "k", "l", "m",
               "n", "o", "p", "q", "r", "s", "t", "u", "v", "w", "x", "y", "z">>

\* String.prototype.toLowerCase
toLowerCase(s) ==
  [i \in 1..Len(s) |->
     IF \E k \in 1..26 : UpperCase[k] = s[i]
     THEN LowerCase[CHOOSE k \in 1..26 : UpperCase[k] = s[i]]
     ELSE s[i]]

\* a character of [a-z0-9]
IsAlnum(c) == c \in Digits \/ \E k \in 1..26 : LowerCase[k] = c

\* replace(/[^a-z0-9]+/g, '-'): every run of other characters becomes one dash
RECURSIVE Dashed(_)
Dashed(s) ==
  IF s = <<>> THEN <<>>
  ELSE IF IsAlnum(Head(s)) THEN <<Head(s)>> \o Dashed(Tail(s))
  ELSE IF Tail(s) # <<>> /\ ~IsAlnum(Head(Tail(s))) THEN Dashed(Tail(s))
  ELSE <<"-">> \o Dashed(Tail(s))

\* replace(/^-|-$/g, ''): a dash at the start and a dash at the end are dropped
Trimmed(s) ==
  LET a == IF s # <<>> /\ Head(s) = "-" THEN Tail(s) ELSE s
  IN IF a # <<>> /\ a[Len(a)] = "-" THEN SubSeq(a, 1, Len(a) - 1) ELSE a

\* `${n}` for an integer
RECURSIVE NumStr(_)
NumStr(n) ==
  IF n < 0 THEN <<"-">> \o NumStr(0 - n)
  ELSE LET d == <<CHOOSE c \in Digits : DigitVal(c) = n % 10>>
       IN IF n < 10 THEN d ELSE NumStr(n \div 10) \o d

\* 'telegram-', and what follows it in the folder of a private chat and in
\* the name of a group without title
TelegramDash == <<"t", "e", "l", "e", "g", "r", "a", "m", "-">>

\* safeName: the sanitized title of a group, at most 50 characters
SafeName(chatId, title) ==
  LET t == IF Truthy(title) THEN title
           ELSE TelegramDash \o <<"g", "r", "o", "u", "p", "-">> \o NumStr(chatId)
      c == Trimmed(Dashed(toLowerCase(t)))
  IN SubSeq(c, 1, IF Len(c) < 50 THEN Len(c) ELSE 50)

\* getGroupFolder: the folder of a chat and registered_telegram.json after
\* the call; a chat that is not known is registered (made: the folder created)
getGroupFolder(chatId, chatType, title) ==
  LET register(f) == [folder |-> f, made |-> {f},
                      chats |-> chats \cup {[chatId |-> chatId, folder |-> f]}]
  IN IF \E c \in chats : c.chatId = chatId
     THEN [folder |-> (CHOOSE c \in chats : c.chatId = chatId).folder,
           made |-> {}, chats |-> chats]
     ELSE IF chatType = "private"
     THEN IF unifiedMainChannel
          THEN [folder |-> MAIN_GROUP_FOLDER, made |-> {}, chats |-> chats]
          ELSE register(TelegramDash \o <<"p", "r", "i", "v", "a", "t", "e", "-">>
                          \o NumStr(chatId))
     ELSE IF chatType \in {"group", "supergroup"}
     THEN register(TelegramDash \o SafeName(chatId, title))
     ELSE [folder |-> <<>>, made |-> {}, chats |-> chats]

\* the text messages Telegram delivers: chat, chat type, chat title, sender
\* (ctx.from?.id, 0 when the update carries no sender), and whether the text
\* matches the trigger pattern and leaves a prompt
Updates ==
  LET Update(chatId, chatType, title, from, trigger) ==
        [chatId |-> chatId, chatType |-> chatType, title |-> title, from |-> from,
         trigger |-> trigger]
  IN { Update(7, "private", <<>>, 7, TRUE),
       Update(0 - 11, "group", <<"T", "e", "a", "m">>, 7, TRUE),
       Update(0 - 12, "supergroup", <<"t", "e", "a", "m", "!">>, 8, TRUE),
       Update(0 - 13, "group", <<"O", "p", "s">>, 8, TRUE),
       Update(0 - 13, "group", <<"O", "p", "s">>, 8, FALSE),
       Update(0 - 11, "group", <<"T", "e", "a", "m">>, 0, TRUE) }

\* the continuity tokens the runner may hand back
Tokens == {<<"s", "1">>, <<"s", "2">>}

\* map[folder], undefined when there is none
SessionGet(map, folder) ==
  IF \E e \in map : e.folder = folder
  THEN (CHOOSE e \in map : e.folder = folder).token
  ELSE <<>>

\* map[folder] = token
SessionSet(map, folder, token) ==
  {e \in map : e.folder # folder} \cup {[folder |-> folder, token |-> token]}

\* { ...a, ...b }
Spread(a, b) == {e \in a : ~\E f \in b : f.folder = e.folder} \cup b

\* (mutant) the token is stored under the chat's address
SessionKeyIsChat(r) == TG \o NumStr(r.chatId)

\* the key handleMessage stores a new token under: the folder
SessionKey(r) == r.folder

\* the pairing gate lets the message on:
\* `if (userId && !isUserPaired(userId)) { ... return; }`
PastPairingGate(userId) == ~(userId # 0 /\ ~IsPaired(userId))

\* handleMessage from the gates to `await ctx.sendChatAction('typing')`: the
\* message is past the pairing gate, a group message carries the trigger, the
\* chat has a folder
MsgReceive ==
  /\ bot /\ nextMsg <= MaxMessages
  /\ \E m \in Updates :
       LET g == getGroupFolder(m.chatId, m.chatType, m.title)
       IN /\ PastPairingGate(m.from)
          /\ m.chatType = "private" \/ m.trigger
          /\ Truthy(g.folder)
          /\ chats' = g.chats
          /\ groupFolders' = groupFolders \cup g.made
          /\ running' = running \cup {[mid |-> nextMsg, chatId |-> m.chatId,
                                       from |-> m.from, paired |-> IsPaired(m.from),
                                       folder |-> g.folder, pc |-> "typing",
                                       sessionId |-> <<>>]}
  /\ nextMsg' = nextMsg + 1
  /\ last' = NoStep
  /\ UNCHANGED <<now, coder, drainVars, mailVars, tasks, nextTaskId, registeredGroups,
                 pairedUsers, pendingApprovals, schedVars, bot, startVars, sent, sessions,
                 sessionsFile, returned, fired>>

\* handleMessage from the typing indicator to `await runContainerAgent`: the
\* folder's token is read and the runner started
MsgInvoke ==
  /\ \E r \in running :
       /\ r.pc = "typing"
       /\ running' = (running \ {r})
                       \cup {[r EXCEPT !.pc = "running",
                                       !.sessionId = SessionGet(sessions, r.folder)]}
  /\ last' = NoStep
  /\ UNCHANGED <<now, coder, drainVars, mailVars, storeVars, schedVars, bot, startVars, sent, chats,
                 sessions, sessionsFile, nextMsg, returned, fired>>

\* handleMessage after the runner returned: a new token is stored in the map
\* and saved (setSessions), and the result or the error is replied
MsgReturn ==
  /\ \E r \in running, newSessionId \in Tokens \cup {<<>>}, replied \in BOOLEAN :
       LET set == SessionSet(sessions, SessionKey(r), newSessionId)
       IN /\ r.pc = "running"
          /\ running' = running \ {r}
          /\ sessions' = IF Truthy(newSessionId) THEN Spread(set, set) ELSE sessions
          /\ sessionsFile' = IF Truthy(newSessionId) THEN sessions' ELSE sessionsFile
          /\ returned' = [mid |-> r.mid, folder |-> r.folder,
                          newSessionId |-> newSessionId]
          /\ sent' = IF replied
                     THEN sent \cup {[chatId |-> r.chatId, via |-> "reply",
                                      src |-> r.folder]}
                     ELSE sent
  /\ last' = NoStep
  /\ UNCHANGED <<now, coder, drainVars, mailVars, storeVars, schedVars, bot, startVars, chats, nextMsg,
                 fired>>

----------------------------------------------------------------------------
(* Initial state: the registry and the Task Store as loadState / initDatabase
   find them on disk *)

NoReturn == [mid |-> 0, folder |-> <<>>, newSessionId |-> <<>>]

Group(j, f) == [jid |-> j, name |-> f, folder |-> f, trigger |-> <<"@">>]

StoredTask ==
  [id |-> 1, group_folder |-> G1, chat_jid |-> JidG1, prompt |-> <<"p">>,
   schedule_type |-> <<"interval">>, schedule_value |-> <<"1">>,
   context_mode |-> <<"isolated">>, next_run |-> Num(1), status |-> <<"active">>,
   created_at |-> 0]

InitWith(paired, stored) ==
  /\ now = 0
  /\ ipc = {} /\ errors = {} /\ nextEntry = 1
  /\ drainPc = AfterTick /\ todoGroups = <<>> /\ curDir = MAIN_GROUP_FOLDER /\ files = {}
  /\ timers = 1 /\ ticks = 0
  /\ tasks = stored /\ nextTaskId = Cardinality(stored) + 1
  /\ registeredGroups = <<Group(JidMain, MAIN_GROUP_FOLDER), Group(JidG1, G1)>>
  /\ groupFolders = {MAIN_GROUP_FOLDER, G1}
  /\ pairedUsers = paired /\ pendingApprovals = {}
  /\ bot = FALSE /\ sent = {}
  /\ telegramStarted = FALSE /\ alive = 0 /\ waiting = 0
  /\ schedPc = "idle" /\ dueQueue = <<>> /\ inflight = NoTask
  /\ written = <<>> /\ fate = <<>> /\ applied = <<>> /\ handed = {}
  /\ origin = [i \in 1..Cardinality(stored) |-> <<>>]
  /\ chats = {} /\ sessions = {} /\ sessionsFile = {}
  /\ running = {} /\ nextMsg = 1 /\ returned = NoReturn
  /\ fired = {}
  /\ coder = NoCall
  /\ last = NoStep

Init == InitWith({}, {StoredTask})

Drain ==
  \/ DrainReadError \/ DrainStart \/ DrainGroup \/ DrainMessage \/ DrainTasksDir \/ DrainTask
  \/ DrainGroupDone \/ DrainEnd

\* the drainer while every store write of the handlers succeeds
DrainSound ==
  \/ DrainReadError \/ DrainStart \/ DrainGroup \/ DrainMessage \/ DrainTasksDir
  \/ DrainTaskSound \/ DrainGroupDone \/ DrainEnd

----------------------------------------------------------------------------
(* Specifications.  Each lets the workers write a different family of
   entries; the drainer is the same in all of them.                         *)

W(dir, sub, body) == [dir |-> dir, sub |-> sub, body |-> body]

\* a mix of every kind of entry
MixedWrites ==
  { W(MAIN_GROUP_FOLDER, "messages", Msg(JidG1, <<"hi">>)),
    W(G1, "messages", Msg(JidMain, <<"hi">>)),
    W(G1, "messages", Garbage),
    W(G1, "tasks", Garbage),
    W(G1, "tasks", Sched(G1, <<>>, <<"interval">>, <<"1">>)),
    W(G1, "tasks", Sched(MAIN_GROUP_FOLDER, JidMain, <<"interval">>, <<"1">>)),
    W(MAIN_GROUP_FOLDER, "tasks", Register(JidG2, <<"n">>, G2, <<"@">>)),
    W(MAIN_GROUP_FOLDER, "tasks", TaskOp(<<"cancel_task">>, 1)),
    W(G2, "tasks", TaskOp(<<"cancel_task">>, 1)) }

Next == WorkerWrite(MixedWrites) \/ Drain \/ StartBot

Spec == Init /\ [][Next]_vars

----------------------------------------------------------------------------
(* Claims about the drainer, checked under Spec *)

Ids == 1..Len(written)

Pending(i) == \E e \in ipc : e.id = i

InQuarantine(i) == \E q \in errors : q.id = i

\* C1: the source group and the elevated flag given to the handling of an
\* entry are functions of the directory it was found in: two entries found in
\* the same directory get the same sourceGroup and isMain whatever identity
\* their bodies claim, and these are the directory itself and whether it is
\* the main group's.
C1_SourceFromDirectory ==
  /\ \A h1, h2 \in handed :
       h1.dir = h2.dir => h1.sourceGroup = h2.sourceGroup /\ h1.isMain = h2.isMain
  /\ \A h \in handed :
       h.sourceGroup = h.dir /\ h.isMain = (h.dir = MAIN_GROUP_FOLDER)

\* two entries of one directory claiming different identities, one of them the
\* main group's, were handled
C1_Witness ==
  \E h1, h2 \in handed :
    /\ h1.dir = h2.dir /\ h1.dir # MAIN_GROUP_FOLDER
    /\ h1.claims # h2.claims
    /\ h1.claims[1] = MAIN_GROUP_FOLDER

\* C5: a message entry is sent to the front end only when it was drained from
\* the main group's directory; one drained from another directory is not sent.
C5_OnlyMainEmits ==
  /\ \A m \in sent : m.via = "ipc" => m.src = MAIN_GROUP_FOLDER
  /\ (last.sub = "messages" /\ last.dir # MAIN_GROUP_FOLDER) => ~last.delivered

\* main's message was sent, and a well-formed message of another group was
\* drained without being sent
C5_Witness ==
  /\ \E m \in sent : m.via = "ipc"
  /\ last.sub = "messages" /\ last.dir # MAIN_GROUP_FOLDER
  /\ last.body.type = <<"message">> /\ StartsWith(last.body.chatJid, TG)
  /\ last.outcome = "deleted"

\* C8: an entry whose body does not parse is never deleted: it is pending or
\* it was moved to the quarantine area, and the step that takes it out of the
\* pending set puts it at its quarantine name under errors/.
C8_UnparseableQuarantined ==
  /\ \A i \in Ids :
       ~written[i].body.parse =>
         /\ fate[i] \in {"pending", "quarantined"}
         /\ fate[i] = "pending" <=> Pending(i)
  /\ (last.id # 0 /\ ~last.body.parse /\ ~Pending(last.id)) =>
       \E q \in errors :
         q.id = last.id /\ q.name = QuarantineName(last.dir, last.name)

\* an unparseable entry of a messages directory and one of a tasks directory
\* have both been quarantined
C8_Witness ==
  \E i, j \in Ids :
    /\ written[i].sub = "messages" /\ written[j].sub = "tasks"
    /\ ~written[i].body.parse /\ ~written[j].body.parse
    /\ fate[i] = "quarantined" /\ fate[j] = "quarantined"

\* C9: when the handler of a control request throws, the file is not deleted:
\* it is moved to quarantine (it stays pending only when that move itself
\* fails); a file of the tasks directory is deleted only after its handler
\* returned normally.
C9_ThrowQuarantines ==
  /\ (last.id # 0 /\ last.sub = "tasks" /\ last.threw) =>
       /\ fate[last.id] # "deleted"
       /\ last.renameOk => (InQuarantine(last.id) /\ ~Pending(last.id)
                            /\ fate[last.id] = "quarantined")
       /\ ~last.renameOk => Pending(last.id)
  /\ (last.id # 0 /\ last.sub = "tasks" /\ fate[last.id] = "deleted") => ~last.threw
  /\ \A i \in Ids :
       (written[i].sub = "tasks" /\ fate[i] = "deleted") => applied[i] >= 1

\* the handler of a well-formed request threw on a store write and the file is
\* in quarantine
C9_Witness ==
  /\ last.id # 0 /\ last.sub = "tasks" /\ last.body.parse /\ last.threw
  /\ last.body.type = <<"schedule_task">>
  /\ InQuarantine(last.id)

----------------------------------------------------------------------------
(* Task requests, checked under SpecTaskOps *)

TaskOps == {<<"pause_task">>, <<"resume_task">>, <<"cancel_task">>}

TaskOpWrites ==
  { W(G2, "tasks", TaskOp(<<"pause_task">>, 1)),
    W(G2, "tasks", TaskOp(<<"cancel_task">>, 1)),
    W(G1, "tasks", TaskOp(<<"pause_task">>, 1)),
    W(G1, "tasks", TaskOp(<<"resume_task">>, 1)),
    W(G1, "tasks", TaskOp(<<"cancel_task">>, 1)),
    W(G1, "tasks", TaskOp(<<"cancel_task">>, 9)),
    W(MAIN_GROUP_FOLDER, "tasks", TaskOp(<<"pause_task">>, 1)),
    W(MAIN_GROUP_FOLDER, "tasks", TaskOp(<<"cancel_task">>, 1)),
    W(G2, "tasks", Sched(G1, <<>>, <<"interval">>, <<"1">>)),
    W(G2, "tasks", Sched(MAIN_GROUP_FOLDER, JidMain, <<"once">>, <<"1">>)),
    W(G1, "tasks", Sched(G1, <<>>, <<"interval">>, <<"1">>)),
    W(G2, "messages", TaskOp(<<"cancel_task">>, 1)) }

NextTaskOps == WorkerWrite(TaskOpWrites) \/ Drain

SpecTaskOps == Init /\ [][NextTaskOps]_vars

\* the request of body data, found in directory dir, is aimed at another
\* group than dir (tasks is the Task Store it meets)
TargetsOtherGroup(data, dir) ==
  \/ /\ data.type = <<"schedule_task">>
     /\ Truthy(data.groupFolder) /\ data.groupFolder # dir
  \/ /\ data.type \in TaskOps
     /\ \E t \in tasks : t.id = data.taskId /\ t.group_folder # dir

\* C2: a control request drained from a directory other than main's and aimed
\* at another group (schedule_task with a foreign groupFolder; pause, resume,
\* cancel of a task another group owns) leaves the Task Store, the Tenant
\* Registry and the Access-Control Store as they were.
C2_CrossTenantNoEffect ==
  [][(/\ last'.id # 0 /\ last'.sub = "tasks"
      /\ last'.dir # MAIN_GROUP_FOLDER
      /\ TargetsOtherGroup(last'.body, last'.dir))
     => UNCHANGED storeVars]_vars

\* a group that is not main asked to cancel another group's task, the request
\* is gone and the task is still there
C2_Witness ==
  /\ last.id # 0 /\ last.sub = "tasks" /\ last.dir = G2
  /\ last.body.type = <<"cancel_task">>
  /\ TargetsOtherGroup(last.body, last.dir)
  /\ last.outcome = "deleted"
  /\ \E i \in Ids : written[i].body.type = <<"schedule_task">>
                    /\ written[i].dir = G2 /\ fate[i] = "deleted"

\* the Task Store with the row of task id paused, resumed or removed and
\* every other row as it is
EffectOf(kind, id) ==
  LET row  == CHOOSE t \in tasks : t.id = id
      rest == tasks \ {row}
  IN CASE kind = <<"pause_task">> -> rest \cup {[row EXCEPT !.status = <<"paused">>]}
       [] kind = <<"resume_task">> -> rest \cup {[row EXCEPT !.status = <<"active">>]}
       [] kind = <<"cancel_task">> -> rest

\* C6: pause_task, resume_task and cancel_task take effect on the Task Store
\* exactly when the named task exists and its owner is the source directory
\* or the source is main: then the row is paused, resumed, deleted; in every
\* other case (no such task, another group's task) the store is unchanged.
C6_TaskOpIffAllowed ==
  [][(/\ last'.id # 0 /\ last'.sub = "tasks" /\ ~last'.threw
      /\ last'.body.type \in TaskOps /\ TruthyNum(last'.body.taskId))
     => LET id      == last'.body.taskId
            exists  == \E t \in tasks : t.id = id
            allowed == exists /\ \/ last'.dir = MAIN_GROUP_FOLDER
                                 \/ getTaskById(id).group_folder = last'.dir
        IN /\ allowed => tasks' = EffectOf(last'.body.type, id)
           /\ ~allowed => tasks' = tasks
           /\ tasks' # tasks => allowed]_vars

\* the owner paused its task, and a request naming no task changed nothing
C6_Witness ==
  /\ last.id # 0 /\ last.sub = "tasks" /\ ~last.threw
  /\ last.dir = G1 /\ last.body.type = <<"pause_task">>
  /\ \E t \in tasks : t.id = last.body.taskId /\ t.status = <<"paused">>
  /\ \E i \in Ids : written[i].body.taskId = 9 /\ fate[i] = "deleted"

----------------------------------------------------------------------------
(* Administrative requests, checked under SpecAdmin *)

AclKinds == {<<"telegram_approve">>, <<"telegram_deny">>, <<"telegram_list_pending">>}

AdminWrites ==
  { W(G1, "tasks", Acl(<<"telegram_approve">>, 7)),
    W(G1, "tasks", Acl(<<"telegram_deny">>, 7)),
    W(G1, "tasks", Acl(<<"telegram_list_pending">>, 0)),
    W(MAIN_GROUP_FOLDER, "tasks", Acl(<<"telegram_approve">>, 7)),
    W(MAIN_GROUP_FOLDER, "tasks", Acl(<<"telegram_deny">>, 7)),
    W(MAIN_GROUP_FOLDER, "tasks", Register(JidG2, <<"n">>, G2, <<"@">>)),
    W(MAIN_GROUP_FOLDER, "tasks", Register(JidG2, <<"n">>, G2, <<>>)),
    W(MAIN_GROUP_FOLDER, "tasks", Register(<<>>, <<"n">>, G2, <<"@">>)),
    W(MAIN_GROUP_FOLDER, "tasks", Register(JidG1, <<"n">>, G2, <<"@">>)),
    W(G1, "tasks", Register(JidG2, <<"n">>, G2, <<"@">>)),
    W(G1, "messages", Acl(<<"telegram_approve">>, 7)) }

NextAdmin == WorkerWrite(AdminWrites) \/ Drain \/ HandleMessage

SpecAdmin == Init /\ [][NextAdmin]_vars

\* C3: an approve, deny or list-pending request drained from a directory
\* other than main's leaves the paired and the pending records as they were.
C3_AclOnlyFromMain ==
  [][(/\ last'.id # 0 /\ last'.sub = "tasks"
      /\ last'.dir # MAIN_GROUP_FOLDER
      /\ last'.body.type \in AclKinds)
     => UNCHANGED <<pairedUsers, pendingApprovals>>]_vars

\* a group that is not main asked to approve a user who is waiting, the
\* request is gone and the user still waits, unpaired
C3_Witness ==
  /\ last.id # 0 /\ last.sub = "tasks" /\ last.dir = G1
  /\ last.body.type = <<"telegram_approve">>
  /\ IsPending(last.body.userId) /\ ~IsPaired(last.body.userId)
  /\ last.outcome = "deleted"

\* C7: a register request changes the Tenant Registry or creates a group
\* folder only when it was drained from main's directory and carries jid,
\* name, folder and trigger; otherwise registry and folders are unchanged.
C7_RegisterOnlyMainComplete ==
  [][(/\ last'.id # 0 /\ last'.sub = "tasks"
      /\ last'.body.type = <<"register_group">>
      /\ ~(/\ last'.dir = MAIN_GROUP_FOLDER
           /\ Truthy(last'.body.jid) /\ Truthy(last'.body.name)
           /\ Truthy(last'.body.folder) /\ Truthy(last'.body.trigger)))
     => UNCHANGED <<registeredGroups, groupFolders>>]_vars

\* main registered a group (registry entry and folder are there), and a
\* request without trigger was drained from main's directory
C7_Witness ==
  /\ \E i \in 1..Len(registeredGroups) :
       registeredGroups[i].jid = JidG2 /\ registeredGroups[i].folder = G2
  /\ G2 \in groupFolders
  /\ last.id # 0 /\ last.dir = MAIN_GROUP_FOLDER
  /\ last.body.type = <<"register_group">> /\ ~Truthy(last.body.trigger)
  /\ last.outcome = "deleted"

----------------------------------------------------------------------------
(* Delivery to the front end, checked under SpecDelivery: the drainer and the
   scheduler loop run side by side; every invocation of the runner succeeds *)

Scheduler == SchedStart \/ SchedDispatch \/ SchedFinish \/ SchedEnd

\* the scheduler loop while every invocation succeeds
SchedulerSound == SchedStart \/ SchedDispatch \/ SchedFinishSound \/ SchedEnd

DeliveryWrites ==
  { W(G1, "tasks", Sched(G1, <<>>, <<"once">>, <<"1">>)),
    W(G1, "tasks", Sched(G1, JidMain, <<"once">>, <<"1">>)),
    W(G2, "tasks", Sched(G2, JidG1, <<"interval">>, <<"1">>)),
    W(MAIN_GROUP_FOLDER, "tasks", Sched(G1, <<>>, <<"once">>, <<"1">>)),
    W(G1, "messages", Msg(JidMain, <<"hi">>)),
    W(MAIN_GROUP_FOLDER, "messages", Msg(JidG1, <<"hi">>)) }

NextDelivery ==
  WorkerWrite(DeliveryWrites) \/ Drain \/ SchedulerSound \/ Advance \/ StartBot

SpecDelivery == Init /\ [][NextDelivery]_vars

\* the chat ids of the addresses registered for a group folder
OwnChatIds(g) ==
  {Val(SchedulerChatId(registeredGroups[i].jid)) :
     i \in {k \in 1..Len(registeredGroups) :
              /\ registeredGroups[k].folder = g
              /\ ~IsNaN(SchedulerChatId(registeredGroups[k].jid))}}

\* C4: whatever a group other than main writes into its mailbox, the host
\* sends no message on its behalf to an address that is not the group's own
\* registered address: not for a message entry, and not as the result of a
\* task the group scheduled with a chatJid of its choosing.
C4_NoForeignDestination ==
  \A m \in sent :
    (m.via \in {"ipc", "scheduler"} /\ m.src \in GroupDirs \ {MAIN_GROUP_FOLDER})
      => m.chatId \in OwnChatIds(m.src)

----------------------------------------------------------------------------
(* Failures inside a drain tick *)

\* C11: an outbound message entry whose text the host tried to send leaves
\* the pending set by deletion only when the text was delivered to the front
\* end; when the send failed the entry is in quarantine.
C11_DeletedOnlyIfDelivered ==
  (last.id # 0 /\ last.sub = "messages" /\ ~IsNaN(last.chatId)) =>
    /\ (last.outcome = "deleted" => last.delivered)
    /\ (~last.delivered => InQuarantine(last.id))

\* a control request of a group other than main that the handler turns down
\* for lack of authorization
Unauthorized(data, dir) ==
  /\ dir # MAIN_GROUP_FOLDER
  /\ \/ /\ data.type = <<"schedule_task">>
        /\ Truthy(data.prompt) /\ Truthy(data.schedule_type)
        /\ Truthy(data.schedule_value) /\ Truthy(data.groupFolder)
        /\ data.groupFolder # dir
     \/ /\ data.type \in {<<"pause_task">>, <<"resume_task">>, <<"cancel_task">>}
        /\ \E t \in tasks : t.id = data.taskId /\ t.group_folder # dir
     \/ data.type \in {<<"register_group">>, <<"telegram_approve">>,
                       <<"telegram_deny">>, <<"telegram_list_pending">>}

\* C12: a control request rejected for lack of authorization is deleted by the
\* step that handled it: it is neither pending nor in quarantine afterwards,
\* and it was handled exactly once.
C12_RejectedDeleted ==
  (last.id # 0 /\ last.sub = "tasks" /\ last.body.parse
     /\ Unauthorized(last.body, last.dir)) =>
    /\ last.outcome = "deleted" /\ fate[last.id] = "deleted"
    /\ ~Pending(last.id) /\ ~InQuarantine(last.id)
    /\ applied[last.id] = 1

\* a group other than main asked to schedule a task for another group and
\* its file was deleted
C12_Witness ==
  /\ last.id # 0 /\ last.sub = "tasks" /\ last.dir = G2
  /\ last.body.type = <<"schedule_task">> /\ Unauthorized(last.body, last.dir)
  /\ last.outcome = "deleted" /\ ~Pending(last.id)

\* C13: whatever happens to one entry (parse failure, handler exception,
\* failure to quarantine it), the other entries listed for the same
\* directory are still to be processed in this tick, and so are the
\* directories of the other groups.
C13_FailureBlocksNoOther ==
  last.id # 0 =>
    /\ files = last.before \ {last.name}
    /\ drainPc \in {"messages", "tasks"} /\ curDir = last.dir

----------------------------------------------------------------------------
(* The drain loop as a loop: every step of a tick is taken in the end *)

LoopWrites ==
  { W(G1, "messages", Garbage),
    W(MAIN_GROUP_FOLDER, "messages", Msg(JidG1, <<"hi">>)),
    W(G1, "tasks", Garbage),
    W(G1, "tasks", Sched(G1, <<>>, <<"interval">>, <<"1">>)),
    W(MAIN_GROUP_FOLDER, "tasks", Register(JidG2, <<"n">>, G2, <<"@">>)) }

NextLoop == WorkerWrite(LoopWrites) \/ Drain \/ StartBot

\* the event loop runs a ready continuation of processIpcFiles and fires its
\* timer; every await inside a tick settles
SpecLoop == Init /\ [][NextLoop]_vars /\ WF_vars(Drain)

\* C14: the drain loop never stops: whether a tick completes or hits a read
\* error of the base directory, the timer of the next tick is set again, so
\* the loop is waiting for its next tick infinitely often.
C14_LoopNeverStops == []<>(drainPc \in TimerArmed)

\* a tick that handled an entry has completed, a later tick hit the read
\* error, and the timer is set
C14_Witness ==
  /\ drainPc = AfterReadError
  /\ \E i \in Ids : fate[i] # "pending"

----------------------------------------------------------------------------
(* schedule_task: target, schedule kinds and values, checked under
   SpecSchedule: the workers write schedule requests of every kind, valid and
   invalid, while the clock advances                                        *)

ScheduleWrites ==
  { W(G1, "tasks", Sched(<<>>, JidG1, <<"once">>, <<"1">>)),
    W(G1, "tasks", Sched(G1, <<>>, <<"once">>, <<"1">>)),
    W(G1, "tasks", Sched(G1, <<>>, <<"once">>, <<"x">>)),
    W(G1, "tasks", Sched(G1, <<>>, <<"interval">>, <<"1">>)),
    W(G1, "tasks", Sched(G1, <<>>, <<"interval">>, <<"0">>)),
    W(G1, "tasks", Sched(G1, <<>>, <<"interval">>, <<"-", "1">>)),
    W(G1, "tasks", Sched(G1, <<>>, <<"interval">>, <<"x">>)),
    W(G1, "tasks", Sched(G1, <<>>, <<"interval">>, <<"1", "m">>)),
    W(G1, "tasks", Sched(G1, <<>>, <<"cron">>, CronEvery2)),
    W(G1, "tasks", Sched(G1, <<>>, <<"cron">>, <<"x">>)),
    W(G1, "tasks", Sched(G1, <<>>, <<"daily">>, <<"1">>)),
    W(MAIN_GROUP_FOLDER, "messages", Msg(JidG1, <<"hi">>)) }

NextSchedule == WorkerWrite(ScheduleWrites) \/ Drain \/ Advance

SpecSchedule == Init /\ [][NextSchedule]_vars

\* the schedule kinds of the Task entity
ScheduleKinds == {<<"cron">>, <<"interval">>, <<"once">>}

\* a decimal numeral of a positive integer
IsPositiveInteger(v) ==
  /\ v # <<>> /\ \A i \in 1..Len(v) : v[i] \in Digits
  /\ DigitsValue(v, 0) > 0

\* a schedule value that is valid for its kind
ValidForKind(kind, v) ==
  CASE kind = <<"cron">> -> v \in {CronEvery1, CronEvery2}
    [] kind = <<"interval">> -> IsPositiveInteger(v)
    [] kind = <<"once">> -> ~IsNaN(DateParse(v))
    [] OTHER -> FALSE

\* a schedule request, complete but for the target tenant it does not name
NoTargetSchedule(data) ==
  /\ data.type = <<"schedule_task">> /\ ~Truthy(data.groupFolder)
  /\ Truthy(data.prompt) /\ Truthy(data.chatJid)
  /\ data.schedule_type \in ScheduleKinds
  /\ ValidForKind(data.schedule_type, data.schedule_value)

\* C15: a schedule_task request that names no target tenant creates a task
\* owned by the source tenant, the directory it was drained from.
C15_TargetDefaultsToSource ==
  [][(/\ last'.id # 0 /\ last'.sub = "tasks" /\ ~last'.threw
      /\ NoTargetSchedule(last'.body))
     => \E t \in tasks' \ tasks : t.group_folder = last'.dir]_vars

\* C16: a schedule_task request whose schedule value is invalid for its kind
\* (a cron expression that does not parse, an interval that is not a
\* positive integer, a once value that is not a timestamp) creates no task
\* and leaves the Task Store unchanged.
C16_InvalidValueNoTask ==
  [][(/\ last'.id # 0 /\ last'.sub = "tasks"
      /\ last'.body.type = <<"schedule_task">>
      /\ last'.body.schedule_type \in ScheduleKinds
      /\ ~ValidForKind(last'.body.schedule_type, last'.body.schedule_value))
     => UNCHANGED <<tasks, nextTaskId>>]_vars

\* C17: every task in the Task Store has a schedule kind in
\* {cron, interval, once}.
C17_KindsOfTasks == \A t \in tasks : t.schedule_type \in ScheduleKinds

----------------------------------------------------------------------------
(* Next-fire times, checked under SpecFire: once and cron tasks are created
   beside the stored interval task while the clock advances and the scheduler
   loop fires and reschedules them; every store write and every invocation
   of the runner succeeds                                                   *)

FireWrites ==
  { W(G1, "tasks", Sched(G1, <<>>, <<"once">>, <<"1">>)),
    W(G1, "tasks", Sched(G1, <<>>, <<"cron">>, CronEvery1)),
    W(MAIN_GROUP_FOLDER, "messages", Msg(JidG1, <<"hi">>)) }

NextFire == WorkerWrite(FireWrites) \/ DrainSound \/ SchedulerSound \/ Advance

SpecFire == Init /\ [][NextFire]_vars

\* C18 as stated: every task whose next-fire time is not null has it at or
\* after its creation time, tasks of kind once included.
C18_NextFireNotBeforeCreation ==
  \A t \in tasks : ~IsNaN(t.next_run) => Val(t.next_run) >= t.created_at

\* C18, amended: every cron or interval task whose next-fire time is not
\* null has it at or after its creation time; the next-fire time of a once
\* task is the timestamp of its schedule value, wherever that lies with
\* respect to its creation time.
C18_NextFireOfRecurring ==
  \A t \in tasks :
    ~IsNaN(t.next_run) =>
      /\ t.schedule_type \in {<<"cron">>, <<"interval">>}
           => Val(t.next_run) >= t.created_at
      /\ t.schedule_type = <<"once">> => t.next_run = DateParse(t.schedule_value)

\* a once task created after its timestamp had passed stands beside a cron
\* task created through the mailbox and the interval task, rescheduled
C18_Witness ==
  /\ \E t \in tasks :
       t.schedule_type = <<"once">> /\ Val(t.next_run) < t.created_at
  /\ \E u \in tasks :
       u.schedule_type = <<"cron">> /\ u.created_at > 0
  /\ \E v \in tasks :
       v.id = 1 /\ v.schedule_type = <<"interval">> /\ Val(v.next_run) > 1

----------------------------------------------------------------------------
(* The frame of pause_task, resume_task and cancel_task, checked under
   SpecTaskOps *)

\* the fields of a task row other than status
SameButStatus(t, u) ==
  /\ u.id = t.id /\ u.group_folder = t.group_folder /\ u.chat_jid = t.chat_jid
  /\ u.prompt = t.prompt /\ u.schedule_type = t.schedule_type
  /\ u.schedule_value = t.schedule_value /\ u.context_mode = t.context_mode
  /\ u.next_run = t.next_run /\ u.created_at = t.created_at

\* the request just handled names a task that exists and that its source
\* may change, and the handler ran to its end
TaskOpApplies ==
  /\ last'.id # 0 /\ last'.sub = "tasks" /\ ~last'.threw
  /\ last'.body.type \in TaskOps
  /\ \E t \in tasks :
       /\ t.id = last'.body.taskId
       /\ (last'.dir = MAIN_GROUP_FOLDER \/ t.group_folder = last'.dir)

\* C19: cancel_task removes the row of the named task; pause_task and
\* resume_task set its status to paused, respectively active, and leave its
\* other fields as they are; in all three every other task is unchanged.
C19_TaskOpFrame ==
  [][TaskOpApplies =>
       LET id == last'.body.taskId
           kind == last'.body.type
       IN /\ {t \in tasks' : t.id # id} = {t \in tasks : t.id # id}
          /\ kind = <<"cancel_task">> => ~\E u \in tasks' : u.id = id
          /\ kind # <<"cancel_task">> =>
               \A t \in tasks : t.id = id =>
                 \E u \in tasks' :
                   /\ SameButStatus(t, u)
                   /\ u.status = (IF kind = <<"pause_task">> THEN <<"paused">>
                                  ELSE <<"active">>)
                   /\ \A v \in tasks' : v.id = id => v = u]_vars

\* the owner paused its task, which is still there with its next-fire time
C19_Witness ==
  /\ last.id # 0 /\ last.dir = G1 /\ last.body.type = <<"pause_task">>
  /\ last.outcome = "deleted"
  /\ \E t \in tasks : t.id = 1 /\ t.status = <<"paused">> /\ t.next_run = Num(1)

----------------------------------------------------------------------------
(* The Access-Control Store under interleaved front-end messages, approvals,
   denials and unpairings, checked under SpecAccess: every store write
   succeeds *)

AccessWrites ==
  { W(MAIN_GROUP_FOLDER, "tasks", Acl(<<"telegram_approve">>, 7)),
    W(MAIN_GROUP_FOLDER, "tasks", Acl(<<"telegram_approve">>, 8)),
    W(MAIN_GROUP_FOLDER, "tasks", Acl(<<"telegram_deny">>, 7)),
    W(G1, "tasks", Acl(<<"telegram_approve">>, 7)),
    W(MAIN_GROUP_FOLDER, "messages", Msg(JidG1, <<"hi">>)) }

NextAccess ==
  WorkerWrite(AccessWrites) \/ DrainSound \/ HandleMessage \/ UnpairUser \/ StartBot

SpecAccess == Init /\ [][NextAccess]_vars

RecordsOf(u) ==
  <<{p \in pairedUsers : p.userId = u}, {p \in pendingApprovals : p.userId = u}>>

\* the step drained a request of this kind from main's directory that names
\* a user, and the handler returned
AclCall(kind) ==
  /\ last'.id # 0 /\ last'.sub = "tasks" /\ last'.isMain
  /\ last'.body.type = kind /\ TruthyNum(last'.body.userId)
  /\ ~last'.threw

\* C21: after approveUser(u) on a pending user u, u is paired and no longer
\* pending, and the records of every other user are unchanged.
C21_ApprovePending ==
  [][\A u \in Users :
       (AclCall(<<"telegram_approve">>) /\ last'.body.userId = u /\ IsPending(u))
       => /\ IsPaired(u)' /\ ~IsPending(u)'
          /\ \A v \in Users \ {u} : RecordsOf(v)' = RecordsOf(v)]_vars

\* user 7 asked for access and was approved from main while user 8 was
\* waiting: 7 is paired (approved by main) and no longer pending, 8 still waits
C21_Witness ==
  /\ last.id # 0 /\ last.isMain /\ last.body.type = <<"telegram_approve">>
  /\ last.body.userId = 7 /\ ~last.threw /\ last.ret
  /\ \E p \in pairedUsers : p.userId = 7 /\ p.approvedBy = <<"main">>
  /\ ~IsPending(7)
  /\ IsPending(8) /\ ~IsPaired(8)

\* C22: denyUser(u) removes u's pending record and never creates or changes
\* a paired record; when u has no pending record it changes nothing and
\* reports false (and reports true when it removed one).
C22_DenyOnlyRemovesPending ==
  [][\A u \in Users :
       (AclCall(<<"telegram_deny">>) /\ last'.body.userId = u)
       => /\ pendingApprovals' = {p \in pendingApprovals : p.userId # u}
          /\ pairedUsers' = pairedUsers
          /\ last'.ret = IsPending(u)
          /\ ~IsPending(u) => (sent' = sent /\ ~last'.ret)]_vars

\* user 7 was waiting and was denied from main while user 8 was paired: the
\* call reported true, 7 is neither pending nor paired, 8 is still paired
C22_Witness ==
  /\ last.id # 0 /\ last.isMain /\ last.body.type = <<"telegram_deny">>
  /\ last.body.userId = 7 /\ ~last.threw /\ last.ret
  /\ ~IsPending(7) /\ ~IsPaired(7)
  /\ IsPaired(8)

\* user 7 was denied from main without waiting: the call reported false
C22_WitnessNothingPending ==
  /\ last.id # 0 /\ last.isMain /\ last.body.type = <<"telegram_deny">>
  /\ last.body.userId = 7 /\ ~last.threw /\ ~last.ret
  /\ IsPaired(7)

----------------------------------------------------------------------------
(* The Telegram front end with two paired users, checked under SpecFront *)

Paired(u) == [userId |-> u, pairedAt |-> 0, approvedBy |-> <<"main">>]

NextFront == StartBot \/ MsgReceive \/ MsgInvoke \/ MsgReturn

SpecFront == InitWith({Paired(7), Paired(8)}, {StoredTask}) /\ [][NextFront]_vars

\* C23: at no time are two invocations of the agent runner for the same
\* tenant folder in flight.
C23_SameTenantSerialized ==
  \A r1 \in running, r2 \in running :
    (r1.pc = "running" /\ r2.pc = "running" /\ r1.folder = r2.folder) => r1 = r2

\* C24: whenever a runner call for tenant folder T returns a new token, the
\* in-memory session map and the session file both map T to that token
\* afterwards, and the tokens of every other tenant are as before, in both.
C24_NewTokenStored ==
  [][(returned' # returned /\ Truthy(returned'.newSessionId))
     => /\ SessionGet(sessions', returned'.folder) = returned'.newSessionId
        /\ SessionGet(sessionsFile', returned'.folder) = returned'.newSessionId
        /\ {e \in sessions' : e.folder # returned'.folder}
             = {e \in sessions : e.folder # returned'.folder}
        /\ {e \in sessionsFile' : e.folder # returned'.folder}
             = {e \in sessionsFile : e.folder # returned'.folder}]_vars

\* two calls for different tenants overlapped (the one received first was
\* the last to return); both returned new tokens, and the map and the file
\* hold both
C24_Witness ==
  /\ returned.mid = 1 /\ Truthy(returned.newSessionId)
  /\ running = {} /\ nextMsg = 3
  /\ SessionGet(sessions, returned.folder) = returned.newSessionId
  /\ sessionsFile = sessions
  /\ \E e \in sessions : e.folder # returned.folder /\ e.token # returned.newSessionId

\* C25: auto-registration never assigns the same tenant folder to two
\* different chat ids.
C25_FolderPerChat ==
  \A c \in chats, d \in chats : c.folder = d.folder => c.chatId = d.chatId

----------------------------------------------------------------------------
(* The Tenant Registry across register requests, checked under SpecAdmin *)

\* C26: no step changes the folder of an address that is in the Tenant
\* Registry, and no step removes a registered address.
C26_TenantIdImmutable ==
  [][\A i \in 1..Len(registeredGroups) :
       \E j \in 1..Len(registeredGroups') :
         /\ registeredGroups'[j].jid = registeredGroups[i].jid
         /\ registeredGroups'[j].folder = registeredGroups[i].folder]_vars

----------------------------------------------------------------------------
(* The scheduler loop over a Task Store that holds a task of every kind,
   checked under SpecRun (no crash) and SpecCrash *)

StoredTasks ==
  { StoredTask,
    [StoredTask EXCEPT !.id = 2, !.schedule_type = <<"once">>],
    [StoredTask EXCEPT !.id = 3, !.schedule_type = <<"cron">>,
                       !.schedule_value = CronEvery2, !.next_run = Num(2)] }

NextRun == Scheduler \/ Advance \/ StartBot

SpecRun == InitWith({}, StoredTasks) /\ [][NextRun]_vars

NextCrash == Scheduler \/ Advance \/ StartBot \/ Crash

SpecCrash == InitWith({}, StoredTasks) /\ [][NextCrash]_vars

\* the step dispatches a due task: its invocation starts
Dispatches == schedPc = "batch" /\ schedPc' = "invoking"

\* the step ends the run of the task in flight: result delivered, row persisted
Finishes == schedPc = "invoking" /\ schedPc' = "batch"

\* C27: a once task fires at most once: it is not dispatched when it was
\* dispatched before, its row is gone once its run is over, and it is in no
\* later due-task query.
C27_OnceFiresOnce ==
  [][/\ (Dispatches /\ inflight'.schedule_type = <<"once">>)
          => \A f \in fired : f.id # inflight'.id
     /\ (Finishes /\ inflight.schedule_type = <<"once">>)
          => \A t \in tasks' : t.id # inflight.id
     /\ \A f \in fired' :
          (f.kind = <<"once">> /\ f.run = "ended") => \A t \in DueTasks' : t.id # f.id]_vars

\* the once task has fired and its row is gone, at a time when it would still
\* be due; the interval task has fired twice
C27_Witness ==
  /\ \E f \in fired : f.id = 2 /\ f.kind = <<"once">> /\ f.run = "ended"
  /\ \A t \in tasks : t.id # 2
  /\ now = MaxTime
  /\ \E f \in fired, g \in fired : f.id = 1 /\ g.id = 1 /\ f.due < g.due /\ g.run = "ended"

\* C28: for every cron or interval task, when a run ends the stored next-fire
\* timestamp is strictly greater than the time of that firing; for an
\* interval task it is that time plus the period.
C28_NextFireAfterFiring ==
  [][(Finishes /\ inflight.schedule_type \in {<<"cron">>, <<"interval">>})
     => \A t \in tasks' :
          t.id = inflight.id
          => /\ ~IsNaN(t.next_run) /\ Val(t.next_run) > now
             /\ Val(t.next_run) > Val(inflight.next_run)
             /\ t.schedule_type = <<"interval">>
                  => Val(t.next_run) = now + Val(ParseInt(t.schedule_value))]_vars

\* the interval task, due at 1, was run at 2 and is next due at 3; the cron
\* task, due at 2, was run at 2 and is next due at 4
C28_Witness ==
  /\ now = 2
  /\ \E f \in fired : f.id = 1 /\ f.due = 1 /\ f.run = "ended"
  /\ \E t \in tasks : t.id = 1 /\ t.next_run = Num(3)
  /\ \E f \in fired : f.id = 3 /\ f.due = 2 /\ f.run = "ended"
  /\ \E t \in tasks : t.id = 3 /\ t.next_run = Num(4)

\* C29 (as claimed): with host crashes at any point of a batch, no task is
\* dispatched twice for the same due instant.
C29_NoRefireAcrossCrash ==
  [][Dispatches
     => \A f \in fired :
          ~(f.id = inflight'.id /\ f.due = Val(inflight'.next_run))]_vars

\* C29 (amended): with host crashes at any point of a batch, no task whose
\* run has ended (its row persisted) is dispatched again for the same due
\* instant, and at every dispatch the rows of all ended runs are persisted:
\* none of them is still stored with the due instant it was run for.
C29_NoRefireOncePersisted ==
  [][Dispatches
     => /\ \A f \in fired :
             f.run = "ended" => ~(f.id = inflight'.id /\ f.due = Val(inflight'.next_run))
        /\ \A f \in fired, t \in tasks :
             (f.run = "ended" /\ t.id = f.id) => Val(t.next_run) > f.due]_vars

\* the host stopped during the run of the once task (its dispatch for
\* instant 1 was interrupted); the interval task, whose run for instant 1
\* has ended, has no other dispatch for that or any other instant, and after
\* the restart the once task is in flight again for instant 1
C29_Witness ==
  /\ schedPc = "invoking" /\ inflight.id = 2
  /\ \E f \in fired : f.id = 2 /\ f.due = 1 /\ f.run = "interrupted"
  /\ \E f \in fired : f.id = 2 /\ f.due = 1 /\ f.run = "running"
  /\ \E f \in fired : f.id = 1 /\ f.due = 1 /\ f.run = "ended"
  /\ \A f \in fired : f.id = 1 => (f.due = 1 /\ f.run = "ended")

----------------------------------------------------------------------------
(* Control requests racing with the scheduler loop, checked under SpecRace:
   the owner's cancel of the stored interval task and pause and resume of
   the stored once task are drained while the loop fetches, dispatches and
   reschedules; every invocation succeeds *)

RaceWrites ==
  { W(G1, "tasks", TaskOp(<<"cancel_task">>, 1)),
    W(G1, "tasks", TaskOp(<<"pause_task">>, 2)),
    W(G1, "tasks", TaskOp(<<"resume_task">>, 2)),
    W(MAIN_GROUP_FOLDER, "messages", Msg(JidG1, <<"hi">>)) }

NextRace == WorkerWrite(RaceWrites) \/ DrainSound \/ SchedulerSound \/ Advance

SpecRace == InitWith({}, StoredTasks) /\ [][NextRace]_vars

\* the Task Store holds a row with this id
Stored(id) == \E t \in tasks : t.id = id

\* the batch of this tick still holds a row with this id
Queued(id) == \E i \in 1..Len(dueQueue) : dueQueue[i].id = id

\* C31: a cancel_task drained while the task is in flight leaves the
\* invocation running; the run ends without bringing the deleted row back,
\* and a task that is neither stored nor waiting in the batch stays so and is
\* not dispatched again.
C31_CancelMidDispatch ==
  [][/\ (/\ last'.id # 0 /\ last'.body.type = <<"cancel_task">>
         /\ schedPc = "invoking")
          => UNCHANGED schedVars
     /\ schedPc = "invoking" => ~Queued(inflight.id)
     /\ (Finishes /\ ~Stored(inflight.id))
          => /\ \A t \in tasks' : t.id # inflight.id
             /\ \E ok \in BOOLEAN : Firing(inflight, "ended", ok) \in fired'
     /\ \A id \in 1..(nextTaskId - 1) :
          (~Stored(id) /\ ~Queued(id))
          => /\ \A t \in tasks' : t.id # id
             /\ \A i \in 1..Len(dueQueue') : dueQueue'[i].id # id
             /\ ~(Dispatches /\ inflight'.id = id)]_vars

\* the interval task was cancelled while its run for instant 1 was in
\* flight; the run ended, the row is gone, and at instant 2 the loop is
\* running another task
C31_Witness ==
  /\ \E i \in Ids :
       /\ written[i].body.type = <<"cancel_task">> /\ applied[i] = 1
  /\ \E f \in fired : f.id = 1 /\ f.due = 1 /\ f.run = "ended"
  /\ \A f \in fired : f.id = 1 => f.due = 1
  /\ ~Stored(1)
  /\ now = 2 /\ schedPc = "invoking" /\ inflight.id = 3

\* the stored row of this id is active and its next-fire time has come
ActiveAndDue(id) ==
  \E t \in tasks : /\ t.id = id /\ t.status = <<"active">>
                   /\ ~IsNaN(t.next_run) /\ Val(t.next_run) <= now

C32_PausedInBatchFires ==
  /\ \E t \in tasks : t.id = 2 /\ t.status = <<"paused">>
  /\ \E f \in fired : f.id = 1 /\ f.due = 1 /\ f.run = "ended"
  /\ \E i \in Ids : /\ written[i].body.type = <<"pause_task">>
                    /\ written[i].body.taskId = 2 /\ applied[i] = 1
  /\ schedPc = "invoking" /\ inflight.id = 2

----------------------------------------------------------------------------
(* The ticks of processIpcFiles, checked under Spec *)

\* C33: at most one call of processIpcFiles is in progress: no timer of a
\* next tick is set while a call is in progress, at most one timer is ever
\* set, and a mailbox file is handled only inside the one call in progress.
C33_OneTickAtATime ==
  /\ ticks <= 1
  /\ timers <= 1
  /\ ticks = 1 => timers = 0
  /\ ticks = 1 <=> drainPc \in {"groups", "messages", "tasks"}
  /\ last.id # 0 => ticks = 1

\* a second tick is in progress over a directory with files left, after an
\* earlier tick has handled an entry, and no timer is set
C33_Witness ==
  /\ ticks = 1 /\ timers = 0
  /\ drainPc = "messages" /\ files # {}
  /\ last = NoStep
  /\ \E i \in Ids : fate[i] = "deleted"
  /\ \E i \in Ids : fate[i] = "pending" /\ written[i].dir = curDir

----------------------------------------------------------------------------
(* The pairing gate of handleMessage, checked under SpecGate: user 7 is
   paired and may be unpaired, user 8 is unknown and may ask for access *)

NextGate ==
  StartBot \/ HandleMessage \/ UnpairUser \/ MsgReceive \/ MsgInvoke \/ MsgReturn

SpecGate == InitWith({Paired(7)}, {StoredTask}) /\ [][NextGate]_vars

\* C34: runContainerAgent is started for a message only when its sender was
\* in the paired set when handleMessage checked the message.
C34_RunnerOnlyForPaired ==
  [][\A r \in running' : (r.pc = "running" /\ r \notin running) => r.paired]_vars

\* with the messages that carry a sender id alone, the runner is started
\* only for senders that were paired at the gate
C34_SendersWithIdGated ==
  [][\A r \in running' :
       (r.pc = "running" /\ r \notin running /\ r.from # 0) => r.paired]_vars

\* the runner is running for a message that carries no sender id
C34_NoSenderReachesRunner ==
  \E r \in running : r.pc = "running" /\ r.from = 0

----------------------------------------------------------------------------
(* The quarantine directory, checked under Spec *)

\* C35: a step of the drainer leaves every file of the quarantine directory
\* in place, with the entry it holds.
C35_QuarantineNeverOverwrites ==
  [][\A q \in errors : q \in errors']_vars

\* a messages entry and a tasks entry of one group, of the same file name,
\* were both quarantined, and the quarantine directory holds one of them
C35_SubdirsCollide ==
  \E i, j \in Ids :
    /\ written[i].dir = written[j].dir /\ written[i].name = written[j].name
    /\ written[i].sub = "messages" /\ written[j].sub = "tasks"
    /\ fate[i] = "quarantined" /\ fate[j] = "quarantined"
    /\ ~(InQuarantine(i) /\ InQuarantine(j))

----------------------------------------------------------------------------
(* startTelegram called any number of times, checked under SpecStart *)

NextStart ==
  StartCall \/ StartSettle \/ LaunchSettles \/ MsgReceive \/ MsgInvoke \/ MsgReturn

SpecStart == InitWith({Paired(7)}, {StoredTask}) /\ [][NextStart]_vars

\* C36: at most one launched bot instance exists at a time, and the started
\* flag is set only while a launched bot is running.
C36_SingleStart ==
  /\ alive <= 1
  /\ telegramStarted => alive >= 1

\* two launched instances exist while the calls that made them wait
C36_TwoBotsLaunched == alive = 2 /\ waiting = 2 /\ ~telegramStarted

\* the flag is set and no launched bot is running
C36_StartedWithoutBot == telegramStarted /\ alive = 0 /\ waiting = 0

----------------------------------------------------------------------------
(* The destination of schedule_task requests that name none, checked under
   SpecTarget: g1 has a registered address, g2 has none until main registers
   one, and main may register a second address for g1 *)

TargetWrites ==
  { W(G1, "tasks", Sched(G1, <<>>, <<"interval">>, <<"1">>)),
    W(G1, "tasks", Sched(G1, JidMain, <<"interval">>, <<"1">>)),
    W(MAIN_GROUP_FOLDER, "tasks", Sched(G2, <<>>, <<"interval">>, <<"1">>)),
    W(MAIN_GROUP_FOLDER, "tasks", Register(JidG2, <<"n">>, G2, <<"@">>)),
    W(MAIN_GROUP_FOLDER, "tasks", Register(JidWa, <<"n">>, G1, <<"@">>)),
    W(MAIN_GROUP_FOLDER, "messages", Msg(JidG1, <<"hi">>)) }

NextTarget == WorkerWrite(TargetWrites) \/ Drain

SpecTarget == Init /\ [][NextTarget]_vars

\* the addresses registered for a tenant folder
AddressesOf(folder) ==
  {registeredGroups[i].jid :
     i \in {k \in 1..Len(registeredGroups) : registeredGroups[k].folder = folder}}

\* C37: a schedule_task request without destination, handled without a
\* storage failure: a task it creates belongs to the target tenant and has a
\* registered address of the target tenant's folder as destination (the one
\* registered first); when the folder has no registered address no task is
\* created; when it has one and the request is authorized and valid, a task
\* is created.
C37_DestinationFromRegistry ==
  [][(/\ last'.id # 0 /\ last'.sub = "tasks" /\ ~last'.threw
      /\ last'.body.type = <<"schedule_task">> /\ ~Truthy(last'.body.chatJid))
     => LET target == last'.body.groupFolder
            own    == AddressesOf(target)
            made   == tasks' \ tasks
        IN /\ \A t \in made : t.group_folder = target /\ t.chat_jid \in own
           /\ \A t \in made, i, k \in 1..Len(registeredGroups) :
                (/\ registeredGroups[i].jid = t.chat_jid
                 /\ registeredGroups[k].folder = target) => i <= k
           /\ own = {} => tasks' = tasks
           /\ (/\ own # {}
               /\ last'.isMain \/ last'.dir = target
               /\ ValidForKind(last'.body.schedule_type, last'.body.schedule_value))
                => Cardinality(made) = 1]_vars

\* main's request for g2 without destination was drained after g2's address
\* was registered, and created a task for g2 that is sent to that address
C37_Witness ==
  /\ last.id # 0 /\ last.body.type = <<"schedule_task">>
  /\ last.body.groupFolder = G2 /\ ~Truthy(last.body.chatJid)
  /\ \E t \in tasks : t.group_folder = G2 /\ t.chat_jid = JidG2

\* main's request for g2 without destination was drained while g2 had no
\* registered address: the file is deleted and the Task Store as it was
C37_NoAddressNoTask ==
  /\ last.id # 0 /\ last.body.type = <<"schedule_task">>
  /\ last.body.groupFolder = G2 /\ ~Truthy(last.body.chatJid)
  /\ AddressesOf(G2) = {} /\ ~last.threw
  /\ tasks = {StoredTask} /\ fate[last.id] = "deleted"

----------------------------------------------------------------------------
(* Outbound messages with a malformed destination, checked under SpecDest:
   main writes messages to tg:x, wa:1, tg:2x and tg:2 *)

DestWrites ==
  { W(MAIN_GROUP_FOLDER, "messages", Msg(JidBad, <<"hi">>)),
    W(MAIN_GROUP_FOLDER, "messages", Msg(JidWa, <<"hi">>)),
    W(MAIN_GROUP_FOLDER, "messages", Msg(JidG1 \o <<"x">>, <<"hi">>)),
    W(MAIN_GROUP_FOLDER, "messages", Msg(JidG1, <<"hi">>)),
    W(G1, "tasks", TaskOp(<<"pause_task">>, 1)) }

NextDest == WorkerWrite(DestWrites) \/ Drain \/ StartBot

SpecDest == Init /\ [][NextDest]_vars

\* a decimal numeral of a chat id: an optional minus sign, then digits only
IsChatIdNumeral(s) ==
  LET body == IF s # <<>> /\ Head(s) = "-" THEN Tail(s) ELSE s
  IN body # <<>> /\ \A i \in 1..Len(body) : body[i] \in Digits

\* no tg: prefix, or something else than a numeral after it
Malformed(jid) ==
  ~StartsWith(jid, TG) \/ ~IsChatIdNumeral(SubSeq(jid, Len(TG) + 1, Len(jid)))

\* the step handles a parsed message file with a destination and a text
MessageStep(e) ==
  /\ e.id # 0 /\ e.sub = "messages" /\ e.body.parse
  /\ e.body.type = <<"message">> /\ Truthy(e.body.chatJid) /\ Truthy(e.body.text)

\* C38: a message entry whose destination is malformed is not sent to the
\* front end and leaves the pending set in the step that handles it.
C38_MalformedNeverSent ==
  [][(MessageStep(last') /\ Malformed(last'.body.chatJid))
     => /\ sent' = sent
        /\ ~\E e \in ipc' : e.id = last'.id]_vars

\* the same for destinations without tg: prefix or without a leading digit
\* after it
C38_NoNumberNeverSent ==
  [][(/\ MessageStep(last')
      /\ \/ ~StartsWith(last'.body.chatJid, TG)
         \/ IsNaN(ParseInt(SubSeq(last'.body.chatJid, Len(TG) + 1,
                                  Len(last'.body.chatJid)))))
     => /\ sent' = sent
        /\ ~\E e \in ipc' : e.id = last'.id]_vars

\* the message addressed to tg:2x was sent to chat 2
C38_TrailingTextSent ==
  /\ MessageStep(last) /\ last.body.chatJid = JidG1 \o <<"x">>
  /\ last.delivered /\ \E m \in sent : m.chatId = 2

----------------------------------------------------------------------------
(* spawnCoder, checked under SpecCoder: one call with any inputs, every Modal
   call and every command in the sandbox may throw, git clone and the agent
   may exit with a code other than 0 *)

NextCoder ==
  CoderCall \/ CoderSetup \/ CoderClone \/ CoderBranch \/ CoderAgent \/ CoderFinally

SpecCoder == Init /\ [][NextCoder]_vars

\* C39: when spawnCoder has returned, the sandbox it created is terminated;
\* without Modal credentials it returns at once and creates no sandbox.
C39_SandboxTerminated ==
  /\ coder.pc = "returned" => coder.sandbox \in {"none", "terminated"}
  /\ (coder.pc # "idle" /\ ~coder.creds)
       => coder.pc = "returned" /\ coder.sandbox = "none"
  /\ (coder.pc = "returned" /\ coder.creds) => coder.sandbox = "terminated"

\* the call returned a failure after git clone exited with 128, and the
\* sandbox it had created is terminated
C39_Witness ==
  /\ coder.pc = "returned" /\ coder.creds /\ coder.cloneExit = 128
  /\ ~coder.result.success /\ coder.sandbox = "terminated"

\* the call returned the failure of the catch block and the sandbox is
\* terminated
C39_WitnessThrow ==
  /\ coder.pc = "returned" /\ coder.creds /\ coder.cloneExit = 0
  /\ ~coder.result.success /\ coder.sandbox = "terminated"

\* C40: the result spawnCoder returns has success: true only when the agent
\* exited with code 0.
C40_SuccessOnlyOnExitZero ==
  (coder.pc = "returned" /\ coder.result.success) => coder.agentExit = 0

\* the call returned success: true and no error for an agent that timed out
C40_TimedOutReportedSuccess ==
  /\ coder.pc = "returned" /\ coder.result.success /\ ~coder.result.error
  /\ coder.agentExit = 124

====
